---- MODULE Spec2Model ----
(***************************************************************************)
(* A model of the scql analysis passes: the schema model and its builder   *)
(* (pkg/schema), schema-aware query analysis (pkg/analyze) and syntax      *)
(* error diagnostics (pkg/parse).                                          *)
(*                                                                         *)
(* Text is modelled as a sequence of one-character strings, so that case   *)
(* folding, trimming and edit distance are computed character by           *)
(* character, as the Go code computes them on (ASCII) bytes.               *)
(***************************************************************************)
EXTENDS Integers, Sequences, FiniteSets, TLC

VARIABLES
    pc,         \* position of the call under study: before it or after it
    tbl,        \* schema builder: the *schema.Table under construction
    calls,      \* schema builder: number of builder calls made so far
    opts,       \* analyze: the *AnalyzeOptions passed to Analyze
    parsed,     \* analyze: what ExtractReferences returns (refs, stmtType, syntaxErrors)
    result,     \* analyze: the *Result returned by Analyze
    rawMessage, \* diagnostics: the raw front-end error message
    query,      \* diagnostics: the query text
    transform,  \* diagnostics: the TransformResult returned by TransformError
    given,      \* other calls: the arguments of the call under study
    returned    \* other calls: what the call returned

vars == <<pc, tbl, calls, opts, parsed, result, rawMessage, query, transform, given, returned>>

-----------------------------------------------------------------------------
(* Text helpers (Go package strings).                                      *)

LowerLetters ==
    <<"a","b","c","d","e","f","g","h","i","j","k","l","m",
      "n","o","p","q","r","s","t","u","v","w","x","y","z">>

UpperLetters ==
    <<"A","B","C","D","E","F","G","H","I","J","K","L","M",
      "N","O","P","Q","R","S","T","U","V","W","X","Y","Z">>

LowerChar(c) ==
    IF \E i \in DOMAIN UpperLetters : UpperLetters[i] = c
    THEN LowerLetters[CHOOSE i \in DOMAIN UpperLetters : UpperLetters[i] = c]
    ELSE c

UpperChar(c) ==
    IF \E i \in DOMAIN LowerLetters : LowerLetters[i] = c
    THEN UpperLetters[CHOOSE i \in DOMAIN LowerLetters : LowerLetters[i] = c]
    ELSE c

\* strings.ToLower
ToLower(s) == [i \in 1..Len(s) |-> LowerChar(s[i])]

\* strings.ToUpper
ToUpper(s) == [i \in 1..Len(s) |-> UpperChar(s[i])]

\* the least and the greatest of a non-empty set of numbers
MinOf(S) == CHOOSE x \in S : \A y \in S : x <= y
MaxOf(S) == CHOOSE x \in S : \A y \in S : x >= y

\* strings.Join(elems, sep)
RECURSIVE Join(_, _)
Join(elems, sep) ==
    IF Len(elems) = 0 THEN <<>>
    ELSE IF Len(elems) = 1 THEN elems[1]
    ELSE elems[1] \o sep \o Join(Tail(elems), sep)

\* fmt.Sprintf: the format string followed by its arguments, in order
Sprintf(format, args) == <<format>> \o args

\* the elements of a sequence
Range(s) == {s[i] : i \in DOMAIN s}

\* a Go map with m[k] = v added or overwritten
MapPut(m, k, v) == [x \in (DOMAIN m) \cup {k} |-> IF x = k THEN v ELSE m[x]]

\* an empty Go map
EmptyMap == [x \in {} |-> 0]

\* the orders in which a range over a Go map with key set S may visit its keys
MapOrders(S) ==
    {o \in [1..Cardinality(S) -> S] : \A i, j \in DOMAIN o : i # j => o[i] # o[j]}

-----------------------------------------------------------------------------
(* Edit distance.                                                          *)

\* min of three integers (pkg/analyze and pkg/parse each define it)
min(a, b, c) ==
    IF a < b THEN (IF a < c THEN a ELSE c) ELSE (IF b < c THEN b ELSE c)

\* one row of the matrix with a deletion charged two edits
RECURSIVE LevRowCostlyDeletion(_, _, _, _)
LevRowCostlyDeletion(curr, prev, ch, s2) ==
    IF Len(curr) = Len(s2) + 1 THEN curr
    ELSE LET j    == Len(curr)
             cost == IF ch = s2[j] THEN 0 ELSE 1
         IN  LevRowCostlyDeletion(
                 Append(curr, min(prev[j + 1] + 2, curr[j] + 1, prev[j] + cost)),
                 prev, ch, s2)

\* one row of the dynamic-programming matrix: curr holds columns 0..Len(curr)-1
RECURSIVE LevRow(_, _, _, _)
LevRow(curr, prev, ch, s2) ==
    IF Len(curr) = Len(s2) + 1 THEN curr
    ELSE LET j    == Len(curr)
             cost == IF ch = s2[j] THEN 0 ELSE 1
         IN  LevRow(Append(curr, min(prev[j + 1] + 1, curr[j] + 1, prev[j] + cost)),
                    prev, ch, s2)

\* the rows i..Len(s1) of the matrix, given row i-1
RECURSIVE LevRows(_, _, _, _)
LevRows(prev, s1, s2, i) ==
    IF i > Len(s1) THEN prev
    ELSE LevRows(LevRow(<<i>>, prev, s1[i], s2), s1, s2, i + 1)

\* pkg/analyze: levenshtein
levenshtein(s1, s2) ==
    IF Len(s1) = 0 THEN Len(s2)
    ELSE IF Len(s2) = 0 THEN Len(s1)
    ELSE LevRows([j \in 1..(Len(s2) + 1) |-> j - 1], s1, s2, 1)[Len(s2) + 1]

\* pkg/parse: levenshteinDistance
levenshteinDistance(s1, s2) ==
    IF s1 = s2 THEN 0
    ELSE IF Len(s1) = 0 THEN Len(s2)
    ELSE IF Len(s2) = 0 THEN Len(s1)
    ELSE LevRows([j \in 1..(Len(s2) + 1) |-> j - 1], s1, s2, 1)[Len(s2) + 1]

-----------------------------------------------------------------------------
(* pkg/schema: the schema model and its builder.                           *)

OrderAsc == "ASC"
OrderDesc == "DESC"

\* &Column{Name: name, Type: cqlType}
NewColumn(name, cqlType) ==
    [Name |-> name, Type |-> cqlType, IsStatic |-> FALSE,
     IsPartitionKey |-> FALSE, IsClusteringKey |-> FALSE, Position |-> 0]

\* the table Keyspace.AddTable creates
NewTable(name) ==
    [Name |-> name, Columns |-> EmptyMap, ColumnOrder |-> <<>>,
     PartitionKey |-> <<>>, ClusteringKey |-> <<>>, ClusteringOrder |-> EmptyMap,
     MaterializedViews |-> EmptyMap]

\* Table.GetColumn reports nil for an absent column
HasColumn(t, name) == name \in DOMAIN t.Columns

\* Table.AddColumn
AddColumn(t, name, cqlType) ==
    [t EXCEPT !.Columns = MapPut(t.Columns, name, NewColumn(name, cqlType)),
              !.ColumnOrder = Append(t.ColumnOrder, name)]

\* Table.AddStaticColumn
AddStaticColumn(t, name, cqlType) ==
    LET t1 == AddColumn(t, name, cqlType)
    IN  IF HasColumn(t1, name)
        THEN [t1 EXCEPT !.Columns[name].IsStatic = TRUE]
        ELSE t1

\* the loop of Table.SetPartitionKey, from index i on
RECURSIVE SetPartitionKeyLoop(_, _, _)
SetPartitionKeyLoop(t, columns, i) ==
    IF i > Len(columns) THEN t
    ELSE LET name == columns[i]
             t1   == IF HasColumn(t, name)
                     THEN [t EXCEPT !.Columns[name].IsPartitionKey = TRUE,
                                    !.Columns[name].Position = i - 1]
                     ELSE t
         IN  SetPartitionKeyLoop(t1, columns, i + 1)

\* Table.SetPartitionKey
SetPartitionKey(t, columns) ==
    SetPartitionKeyLoop([t EXCEPT !.PartitionKey = columns], columns, 1)

\* the loop of Table.SetClusteringKey, from index i on
RECURSIVE SetClusteringKeyLoop(_, _, _)
SetClusteringKeyLoop(t, columns, i) ==
    IF i > Len(columns) THEN t
    ELSE LET name == columns[i]
             t1   == IF HasColumn(t, name)
                     THEN [t EXCEPT !.Columns[name].IsClusteringKey = TRUE,
                                    !.Columns[name].Position =
                                        Len(t.PartitionKey) + (i - 1)]
                     ELSE t
             t2   == [t1 EXCEPT !.ClusteringOrder =
                                    MapPut(t1.ClusteringOrder, name, OrderAsc)]
         IN  SetClusteringKeyLoop(t2, columns, i + 1)

\* Table.SetClusteringKey
SetClusteringKey(t, columns) ==
    SetClusteringKeyLoop([t EXCEPT !.ClusteringKey = columns], columns, 1)

\* Table.SetClusteringOrder
SetClusteringOrder(t, column, order) ==
    [t EXCEPT !.ClusteringOrder = MapPut(t.ClusteringOrder, column, order)]

\* Table.AddMaterializedView: the view is recorded on its base table
AddMaterializedView(t, name) ==
    [t EXCEPT !.MaterializedViews =
                  MapPut(t.MaterializedViews, name, [Name |-> name, BaseTable |-> t.Name])]

\* Table.AllColumns: the columns in definition order
AllColumns(t) ==
    LET present == SelectSeq(t.ColumnOrder, LAMBDA n : HasColumn(t, n))
    IN  [i \in 1..Len(present) |-> t.Columns[present[i]]]

-----------------------------------------------------------------------------
(* Values of the variables a specification does not use.                   *)

IdleTable == NewTable(<<>>)
IdleOpts == [Schema |-> [IsNil |-> TRUE, Keyspaces |-> EmptyMap],
             DefaultKeyspace |-> <<>>, WarnOnSelectStar |-> FALSE,
             WarnOnNoLimit |-> FALSE, LargeLimitThreshold |-> 0]
IdleParsed == [empty |-> TRUE]
IdleResult == [empty |-> TRUE]
IdleMessage == <<>>
IdleQuery == <<>>
IdleTransform == [empty |-> TRUE]

SchemaIdle == tbl = IdleTable /\ calls = 0
AnalyzeIdle == opts = IdleOpts /\ parsed = IdleParsed /\ result = IdleResult
DiagIdle == rawMessage = IdleMessage /\ query = IdleQuery /\ transform = IdleTransform
CallIdle == given = <<>> /\ returned = <<>>

-----------------------------------------------------------------------------
(* The schema builder: any sequence of builder calls on one table.         *)

\* longest sequence of builder calls explored
MaxCalls == 4
\* longest key list passed to SetPartitionKey / SetClusteringKey
MaxKeyLen == 2

BuilderNames == {<<"a">>, <<"b">>, <<"c">>}
BuilderTypes == {"int"}
BuilderOrders == {OrderAsc, OrderDesc}

SeqsUpTo(S, n) == UNION {[1..k -> S] : k \in 0..n}

InitSchema ==
    /\ pc = "build"
    /\ tbl = NewTable(<<"t">>)
    /\ calls = 0
    /\ AnalyzeIdle /\ DiagIdle /\ CallIdle

BuilderStep(t) ==
    /\ pc = "build"
    /\ calls < MaxCalls
    /\ tbl' = t
    /\ calls' = calls + 1
    /\ UNCHANGED <<pc, opts, parsed, result, rawMessage, query, transform, given, returned>>

DoAddColumn ==
    \E name \in BuilderNames, ty \in BuilderTypes :
        BuilderStep(AddColumn(tbl, name, ty))

DoAddStaticColumn ==
    \E name \in BuilderNames, ty \in BuilderTypes :
        BuilderStep(AddStaticColumn(tbl, name, ty))

DoSetPartitionKey ==
    \E columns \in SeqsUpTo(BuilderNames, MaxKeyLen) :
        BuilderStep(SetPartitionKey(tbl, columns))

DoSetClusteringKey ==
    \E columns \in SeqsUpTo(BuilderNames, MaxKeyLen) :
        BuilderStep(SetClusteringKey(tbl, columns))

DoSetClusteringOrder ==
    \E column \in BuilderNames, order \in BuilderOrders :
        BuilderStep(SetClusteringOrder(tbl, column, order))

NextSchema ==
    \/ DoAddColumn
    \/ DoAddStaticColumn
    \/ DoSetPartitionKey
    \/ DoSetClusteringKey
    \/ DoSetClusteringOrder

SpecSchema == InitSchema /\ [][NextSchema]_vars


-----------------------------------------------------------------------------
(* pkg/schema: lookups.                                                    *)

\* a *Schema: nil, or the map of its keyspaces
NilSchema == [IsNil |-> TRUE, Keyspaces |-> EmptyMap]
NewSchema(keyspaces) == [IsNil |-> FALSE, Keyspaces |-> keyspaces]

\* a *Keyspace: its name and the map of its tables
NewKeyspace(name, tables) == [Name |-> name, Tables |-> tables]

\* Schema.GetKeyspace(name) != nil
HasKeyspace(s, name) == ~s.IsNil /\ name \in DOMAIN s.Keyspaces

\* Keyspace.GetTable(name) != nil
HasTable(ks, name) == name \in DOMAIN ks.Tables

\* Schema.KeyspaceNames: the names, in one of the orders a map range may produce
KeyspaceNames(s) == IF s.IsNil THEN {<<>>} ELSE MapOrders(DOMAIN s.Keyspaces)

\* Keyspace.TableNames: the names, in one of the orders a map range may produce
TableNames(ks) == MapOrders(DOMAIN ks.Tables)

-----------------------------------------------------------------------------
(* pkg/types: statement types.                                             *)

StatementSelect == "SELECT"
StatementInsert == "INSERT"
StatementUpdate == "UPDATE"
StatementDelete == "DELETE"
StatementBatch == "BATCH"
StatementUse == "USE"

\* StatementType.IsDML
IsDML(t) ==
    t \in {StatementSelect, StatementInsert, StatementUpdate, StatementDelete,
           StatementBatch}

-----------------------------------------------------------------------------
(* pkg/analyze: findings.                                                  *)

ErrUnknownKeyspace == "unknown_keyspace"
ErrUnknownTable == "unknown_table"
ErrUnknownColumn == "unknown_column"
ErrFunctionArgCount == "function_arg_count"
ErrFunctionArgCountRange == "function_arg_count_range"

WarnMissingPartitionKey == "missing_partition_key"
WarnMissingClusteringKey == "missing_clustering_key"
WarnAllowFilteringPresent == "allow_filtering_present"
WarnNoWhereClause == "no_where_clause"
WarnNoLimit == "no_limit"
WarnLargeLimit == "large_limit"
WarnSelectStar == "select_star"

SeverityError == "error"
SeverityWarning == "warning"
SeverityInfo == "info"

SchemaError(type, message, suggestion, object) ==
    [Type |-> type, Message |-> message, Suggestion |-> suggestion, Object |-> object]

Warning(type, severity, message, suggestion) ==
    [Type |-> type, Severity |-> severity, Message |-> message,
     Suggestion |-> suggestion]

\* the empty string, as a message or suggestion
NoText == <<>>

\* a fixed message or suggestion
Text(t) == <<t>>

\* the column name "*"
Star == <<"*">>

-----------------------------------------------------------------------------
(* pkg/analyze: closest-name suggestions.                                  *)

\* findClosest: the initial bestDistance
FindClosestBound == 3

\* the loop of findClosest over candidates[i..]
RECURSIVE findClosestLoop(_, _, _, _, _)
findClosestLoop(input, candidates, i, bestMatch, bestDistance) ==
    IF i > Len(candidates) THEN bestMatch
    ELSE LET dist == levenshtein(input, ToLower(candidates[i]))
         IN  IF dist < bestDistance
             THEN findClosestLoop(input, candidates, i + 1, candidates[i], dist)
             ELSE findClosestLoop(input, candidates, i + 1, bestMatch, bestDistance)

\* findClosest
findClosest(input, candidates) ==
    findClosestLoop(ToLower(input), candidates, 1, <<>>, FindClosestBound)

\* the "Did you mean" text of suggestKeyspace, suggestTable and suggestColumn
DidYouMean(suggestion) ==
    IF suggestion # <<>> THEN Sprintf("Did you mean '%s'?", <<suggestion>>) ELSE NoText

\* suggestKeyspace, with the order in which KeyspaceNames listed the names
suggestKeyspace(names, name) == DidYouMean(findClosest(name, names))

\* suggestTable, with the order in which TableNames listed the names
suggestTable(names, name) == DidYouMean(findClosest(name, names))

\* suggestColumn
suggestColumn(t, name) ==
    LET cols == AllColumns(t)
    IN  DidYouMean(findClosest(name, [i \in 1..Len(cols) |-> cols[i].Name]))

-----------------------------------------------------------------------------
(* pkg/analyze: function signatures.                                       *)

\* cqldata.GenFunctions, as the generator's built-in lists produce it:
\* each function's name and parameter count
GenFunctions ==
    << [Name |-> "count", Params |-> 1], [Name |-> "sum", Params |-> 1],
       [Name |-> "avg", Params |-> 1], [Name |-> "min", Params |-> 1],
       [Name |-> "max", Params |-> 1], [Name |-> "token", Params |-> 1],
       [Name |-> "writetime", Params |-> 1], [Name |-> "ttl", Params |-> 1],
       [Name |-> "tojson", Params |-> 1], [Name |-> "fromjson", Params |-> 1],
       [Name |-> "cast", Params |-> 2] >>

FunctionSignature(name, minArgs, maxArgs, allowStar) ==
    [Name |-> name, MinArgs |-> minArgs, MaxArgs |-> maxArgs, AllowStar |-> allowStar]

\* the loop of buildFunctionSignatures over GenFunctions[i..]
RECURSIVE buildLoop(_, _)
buildLoop(sigs, i) ==
    IF i > Len(GenFunctions) THEN sigs
    ELSE LET f == GenFunctions[i]
         IN  IF f.Name \in DOMAIN sigs
             THEN LET e  == sigs[f.Name]
                      e1 == IF f.Params < e.MinArgs
                            THEN [e EXCEPT !.MinArgs = f.Params] ELSE e
                      e2 == IF f.Params > e1.MaxArgs
                            THEN [e1 EXCEPT !.MaxArgs = f.Params] ELSE e1
                  IN  buildLoop(MapPut(sigs, f.Name, e2), i + 1)
             ELSE buildLoop(MapPut(sigs, f.Name,
                                   FunctionSignature(f.Name, f.Params, f.Params, FALSE)),
                            i + 1)

\* applySpecialCases: "if sig, ok := sigs[name]; ok { sig.MinArgs = ..; sig.MaxArgs = .. }"
SetArgsIfKnown(sigs, name, minArgs, maxArgs) ==
    IF name \in DOMAIN sigs
    THEN MapPut(sigs, name, [sigs[name] EXCEPT !.MinArgs = minArgs, !.MaxArgs = maxArgs])
    ELSE sigs

\* applySpecialCases: the same, adding the function when it is unknown
SetArgsOrAdd(sigs, name, minArgs, maxArgs) ==
    IF name \in DOMAIN sigs
    THEN SetArgsIfKnown(sigs, name, minArgs, maxArgs)
    ELSE MapPut(sigs, name, FunctionSignature(name, minArgs, maxArgs, FALSE))

\* applySpecialCases: an entry added only when the function is unknown
AddIfUnknown(sigs, name) ==
    IF name \in DOMAIN sigs THEN sigs
    ELSE MapPut(sigs, name, FunctionSignature(name, 0, 0, FALSE))

\* applySpecialCases without the override for count: count keeps the generated signature
applySpecialCasesCountAsGenerated(sigs) ==
    LET s2 == SetArgsIfKnown(sigs, "token", 1, -1)
        s3 == SetArgsOrAdd(s2, "uuid", 0, 0)
        s4 == SetArgsOrAdd(s3, "now", 0, 0)
        s5 == SetArgsIfKnown(s4, "ttl", 1, 1)
        s6 == SetArgsIfKnown(s5, "writetime", 1, 1)
        s7 == SetArgsIfKnown(s6, "cast", 2, 2)
    IN  AddIfUnknown(AddIfUnknown(AddIfUnknown(AddIfUnknown(s7,
            "currentdate"), "currenttime"), "currenttimestamp"), "currenttimeuuid")

\* applySpecialCases
applySpecialCases(sigs) ==
    LET c1 == SetArgsIfKnown(sigs, "count", 1, 1)
        s1 == IF "count" \in DOMAIN c1
              THEN MapPut(c1, "count", [c1["count"] EXCEPT !.AllowStar = TRUE])
              ELSE c1
        s2 == SetArgsIfKnown(s1, "token", 1, -1)
        s3 == SetArgsOrAdd(s2, "uuid", 0, 0)
        s4 == SetArgsOrAdd(s3, "now", 0, 0)
        s5 == SetArgsIfKnown(s4, "ttl", 1, 1)
        s6 == SetArgsIfKnown(s5, "writetime", 1, 1)
        s7 == SetArgsIfKnown(s6, "cast", 2, 2)
    IN  AddIfUnknown(AddIfUnknown(AddIfUnknown(AddIfUnknown(s7,
            "currentdate"), "currenttime"), "currenttimestamp"), "currenttimeuuid")

\* buildFunctionSignatures, run once by init()
builtinFunctions == applySpecialCases(buildLoop([x \in {} |-> 0], 1))

FunctionCall(name, argCount, hasStar) ==
    [Name |-> name, ArgCount |-> argCount, HasStar |-> hasStar]

\* validateFunctionCall: the errors (none or one) for one call
validateFunctionCall(call) ==
    IF call.Name \notin DOMAIN builtinFunctions THEN <<>>
    ELSE LET sig == builtinFunctions[call.Name]
         IN  IF call.HasStar
             THEN IF ~sig.AllowStar
                  THEN <<SchemaError(ErrFunctionArgCount,
                             Sprintf("%s() does not accept * as argument", <<call.Name>>),
                             NoText, call.Name)>>
                  ELSE <<>>
             ELSE IF sig.MaxArgs = -1
             THEN IF call.ArgCount < sig.MinArgs
                  THEN <<SchemaError(ErrFunctionArgCount,
                             Sprintf("%s() requires at least %d argument(s), got %d",
                                     <<call.Name, sig.MinArgs, call.ArgCount>>),
                             NoText, call.Name)>>
                  ELSE <<>>
             ELSE IF sig.MinArgs = sig.MaxArgs
             THEN IF call.ArgCount # sig.MinArgs
                  THEN <<SchemaError(ErrFunctionArgCount,
                             Sprintf("%s() takes %d argument(s), got %d",
                                     <<call.Name, sig.MinArgs, call.ArgCount>>),
                             NoText, call.Name)>>
                  ELSE <<>>
             ELSE IF call.ArgCount < sig.MinArgs \/ call.ArgCount > sig.MaxArgs
                  THEN <<SchemaError(ErrFunctionArgCountRange,
                             Sprintf("%s() takes %d-%d argument(s), got %d",
                                     <<call.Name, sig.MinArgs, sig.MaxArgs,
                                       call.ArgCount>>),
                             NoText, call.Name)>>
                  ELSE <<>>

\* ValidateFunctionCalls
RECURSIVE ValidateFunctionCalls(_)
ValidateFunctionCalls(fcalls) ==
    IF Len(fcalls) = 0 THEN <<>>
    ELSE validateFunctionCall(Head(fcalls)) \o ValidateFunctionCalls(Tail(fcalls))

-----------------------------------------------------------------------------
(* pkg/analyze: Analyze.                                                   *)

\* NewReferences, with the fields Analyze reads
References(keyspace, table, columns, selectColumns, whereColumns, fcalls, allow, limit) ==
    [Keyspace |-> keyspace, Table |-> table, Columns |-> columns,
     SelectColumns |-> selectColumns, WhereColumns |-> whereColumns,
     FunctionCalls |-> fcalls, HasAllowFiltering |-> allow,
     Limit |-> limit]

\* the loop of validateClusteringKeyOrder over tbl.ClusteringKey[i..]
RECURSIVE clusteringLoop(_, _, _, _)
clusteringLoop(t, whereColSet, i, foundGap) ==
    IF i > Len(t.ClusteringKey) THEN <<>>
    ELSE LET ckCol  == t.ClusteringKey[i]
             hasCol == ToLower(ckCol) \in whereColSet
         IN  IF ~hasCol THEN clusteringLoop(t, whereColSet, i + 1, TRUE)
             ELSE IF foundGap
             THEN <<Warning(WarnMissingClusteringKey, SeverityWarning,
                        Sprintf("Clustering column '%s' is used without preceding clustering columns",
                                <<ckCol>>),
                        Text("Include preceding clustering columns in WHERE clause or use ALLOW FILTERING"))>>
                  \o clusteringLoop(t, whereColSet, i + 1, foundGap)
             ELSE clusteringLoop(t, whereColSet, i + 1, foundGap)

\* validateClusteringKeyOrder with foundGap starting true
validateClusteringKeyOrderGapFirst(t, whereColSet) == clusteringLoop(t, whereColSet, 1, TRUE)

\* validateClusteringKeyOrder: the warnings it appends
validateClusteringKeyOrder(t, whereColSet) == clusteringLoop(t, whereColSet, 1, FALSE)

\* validatePartitionKey: the whereColSet it builds
WhereColSet(refs) == {ToLower(c) : c \in Range(refs.WhereColumns)}

\* MissingPK comparing the partition-key name as declared: the ToLower on pkCol dropped
MissingPKCaseSensitive(refs, t) ==
    SelectSeq(t.PartitionKey, LAMBDA pkCol : pkCol \notin WhereColSet(refs))

\* validatePartitionKey: the missingPK it builds
MissingPK(refs, t) ==
    SelectSeq(t.PartitionKey, LAMBDA pkCol : ToLower(pkCol) \notin WhereColSet(refs))

\* validatePartitionKey: the warnings it appends
validatePartitionKey(refs, t) ==
    LET missingPK == MissingPK(refs, t)
        message   == Sprintf("Query is missing partition key column(s): %s",
                             <<Join(missingPK, <<",", " ">>)>>)
        pkWarn    == IF Len(missingPK) > 0
                     THEN IF Len(missingPK) = Len(t.PartitionKey)
                          THEN <<Warning(WarnMissingPartitionKey, SeverityError, message,
                                     Text("Add partition key columns to WHERE clause or use ALLOW FILTERING"))>>
                          ELSE <<Warning(WarnMissingPartitionKey, SeverityError, message,
                                     Text("All partition key columns must be specified"))>>
                     ELSE <<>>
        ckWarn    == IF Len(t.ClusteringKey) > 0 /\ Len(missingPK) = 0
                     THEN validateClusteringKeyOrder(t, WhereColSet(refs))
                     ELSE <<>>
    IN  pkWarn \o ckWarn

\* validateSchema: the unknown_column errors for refs.Columns[i..]
RECURSIVE columnLoop(_, _, _)
columnLoop(columns, t, i) ==
    IF i > Len(columns) THEN <<>>
    ELSE LET colName == columns[i]
         IN  IF colName = Star THEN columnLoop(columns, t, i + 1)
             ELSE IF ~HasColumn(t, colName)
             THEN <<SchemaError(ErrUnknownColumn,
                        Sprintf("Column '%s' not found in table '%s'", <<colName, t.Name>>),
                        suggestColumn(t, colName), colName)>>
                  \o columnLoop(columns, t, i + 1)
             ELSE columnLoop(columns, t, i + 1)

\* what validateSchema appends to the result
Findings(schemaErrors, warnings) == [SchemaErrors |-> schemaErrors, Warnings |-> warnings]

\* validateSchema, from "Find the table" on: the table, its columns, its keys
validateTable(refs, stmtType, ks, tblNames) ==
    IF ~HasTable(ks, refs.Table)
    THEN Findings(<<SchemaError(ErrUnknownTable,
                        Sprintf("Table '%s' does not exist in keyspace '%s'",
                                <<refs.Table, ks.Name>>),
                        suggestTable(tblNames, refs.Table), refs.Table)>>,
                  <<>>)
    ELSE LET t == ks.Tables[refs.Table]
         IN  Findings(columnLoop(refs.Columns, t, 1),
                      IF IsDML(stmtType) /\ stmtType # StatementInsert
                      THEN validatePartitionKey(refs, t)
                      ELSE <<>>)

\* validateSchema without the return after an unknown keyspace: it goes on in the
\* default keyspace
validateSchemaNoReturn(refs, stmtType, o, ksNames, tblNames) ==
    LET s == o.Schema
        unknownKs == refs.Keyspace # <<>> /\ ~HasKeyspace(s, refs.Keyspace)
        ksErr  == IF unknownKs
                  THEN <<SchemaError(ErrUnknownKeyspace,
                             Sprintf("Keyspace '%s' does not exist", <<refs.Keyspace>>),
                             suggestKeyspace(ksNames, refs.Keyspace), refs.Keyspace)>>
                  ELSE <<>>
        ksName == IF refs.Keyspace # <<>> /\ ~unknownKs THEN refs.Keyspace
                  ELSE o.DefaultKeyspace
        rest   == IF ksName = <<>> \/ ~HasKeyspace(s, ksName)
                  THEN Findings(<<>>, <<>>)
                  ELSE validateTable(refs, stmtType, s.Keyspaces[ksName],
                                     CHOOSE names \in TableNames(s.Keyspaces[ksName]) : TRUE)
    IN  Findings(ksErr \o rest.SchemaErrors, rest.Warnings)

\* validateSchema, given the orders in which the keyspace and table maps are listed
validateSchema(refs, stmtType, o, ksNames, tblNames) ==
    LET s == o.Schema
    IN  IF refs.Keyspace # <<>> /\ ~HasKeyspace(s, refs.Keyspace)
        THEN Findings(<<SchemaError(ErrUnknownKeyspace,
                            Sprintf("Keyspace '%s' does not exist", <<refs.Keyspace>>),
                            suggestKeyspace(ksNames, refs.Keyspace), refs.Keyspace)>>,
                      <<>>)
        ELSE LET ksName == IF refs.Keyspace # <<>> THEN refs.Keyspace
                           ELSE o.DefaultKeyspace
             IN  IF ksName = <<>> \/ ~HasKeyspace(s, ksName)
                 THEN Findings(<<>>, <<>>)
                 ELSE validateTable(refs, stmtType, s.Keyspaces[ksName], tblNames)

\* generateWarnings: "Warn about SELECT *"
selectStarWarning(refs, o) ==
    IF o.WarnOnSelectStar /\ Star \in Range(refs.SelectColumns)
    THEN <<Warning(WarnSelectStar, SeverityInfo,
               Text("SELECT * retrieves all columns"),
               Text("Consider selecting only needed columns"))>>
    ELSE <<>>

\* generateWarnings: "Warn about missing LIMIT"
noLimitWarning(refs, o) ==
    IF o.WarnOnNoLimit /\ refs.Limit < 0
    THEN <<Warning(WarnNoLimit, SeverityInfo,
               Text("Query has no LIMIT clause"),
               Text("Consider adding LIMIT to avoid fetching too many rows"))>>
    ELSE <<>>

\* largeLimitWarning without the "threshold > 0" guard
largeLimitWarningUnguarded(refs, o) ==
    IF refs.Limit > o.LargeLimitThreshold
    THEN <<Warning(WarnLargeLimit, SeverityWarning,
               Sprintf("LIMIT %d may return too many rows", <<refs.Limit>>),
               Sprintf("Consider using a smaller limit (threshold: %d)",
                       <<o.LargeLimitThreshold>>))>>
    ELSE <<>>

\* generateWarnings: "Warn about large LIMIT"
largeLimitWarning(refs, o) ==
    IF o.LargeLimitThreshold > 0 /\ refs.Limit > o.LargeLimitThreshold
    THEN <<Warning(WarnLargeLimit, SeverityWarning,
               Sprintf("LIMIT %d may return too many rows", <<refs.Limit>>),
               Sprintf("Consider using a smaller limit (threshold: %d)",
                       <<o.LargeLimitThreshold>>))>>
    ELSE <<>>

\* generateWarnings: "Warn about missing WHERE clause"
noWhereWarning(refs, o) ==
    IF Len(refs.WhereColumns) = 0
    THEN <<Warning(WarnNoWhereClause, SeverityInfo,
               Text("Query has no WHERE clause - will scan entire table"),
               Text("Add WHERE clause to filter results"))>>
    ELSE <<>>

\* generateWarnings: "Warn about ALLOW FILTERING presence"
allowFilteringWarning(refs, o) ==
    IF refs.HasAllowFiltering
    THEN <<Warning(WarnAllowFilteringPresent, SeverityWarning,
               Text("Query uses ALLOW FILTERING which may be slow"),
               Text("Consider restructuring query to avoid ALLOW FILTERING"))>>
    ELSE <<>>

\* generateWarnings: the warnings it appends
generateWarnings(refs, stmtType, o) ==
    IF stmtType # StatementSelect THEN <<>>
    ELSE selectStarWarning(refs, o) \o noLimitWarning(refs, o)
         \o largeLimitWarning(refs, o) \o noWhereWarning(refs, o)
         \o allowFilteringWarning(refs, o)

\* IsValid ignoring the syntax errors
IsValidAlways(p) == TRUE

\* Analyze: result.IsValid
IsValid(p) == p.syntaxErrors = 0

\* Analyze: the *Result, given what ExtractReferences returned
AnalyzeResult(p, o, ksNames, tblNames) ==
    LET isValid == IsValid(p)
        refs    == IF isValid /\ p.refs.Keyspace = <<>> /\ o.DefaultKeyspace # <<>>
                   THEN [p.refs EXCEPT !.Keyspace = o.DefaultKeyspace]
                   ELSE p.refs
        schema  == IF ~o.Schema.IsNil /\ refs.Table # <<>>
                   THEN validateSchema(refs, p.stmtType, o, ksNames, tblNames)
                   ELSE Findings(<<>>, <<>>)
        funcs   == IF Len(refs.FunctionCalls) > 0
                   THEN ValidateFunctionCalls(refs.FunctionCalls)
                   ELSE <<>>
    IN  IF ~isValid
        THEN [References |-> refs, Type |-> p.stmtType, SyntaxErrors |-> p.syntaxErrors,
              IsValid |-> FALSE, SchemaErrors |-> <<>>, Warnings |-> <<>>]
        ELSE [References |-> refs, Type |-> p.stmtType, SyntaxErrors |-> p.syntaxErrors,
              IsValid |-> TRUE,
              SchemaErrors |-> schema.SchemaErrors \o funcs,
              Warnings |-> schema.Warnings \o generateWarnings(refs, p.stmtType, o)]

-----------------------------------------------------------------------------
(* Analysis: one call of Analyze on one parsed statement.                  *)

\* most syntax errors a parsed statement carries
MaxSyntaxErrors == 1

Name_ks == <<"k","s">>
Name_app == <<"a","p","p">>
Name_users == <<"u","s","e","r","s">>
Name_events == <<"e","v","e","n","t","s">>
Name_logs == <<"l","o","g","s">>
Name_id == <<"i","d">>
Name_name == <<"n","a","m","e">>
Name_tenant == <<"t","e","n","a","n","t">>
Name_Day == <<"D","a","y">>
Name_a == <<"a">>
Name_b == <<"b">>
Name_c == <<"c">>
Name_v == <<"v">>

\* ks.users: id uuid (partition key), name text
TableUsers ==
    SetPartitionKey(AddColumn(AddColumn(NewTable(Name_users), Name_id, "uuid"),
                              Name_name, "text"),
                    <<Name_id>>)

\* ks.events: partition key (tenant, Day), clustering key (a, b, c), value v
TableEvents ==
    SetClusteringKey(
        SetPartitionKey(
            AddColumn(AddColumn(AddColumn(AddColumn(AddColumn(AddColumn(
                NewTable(Name_events), Name_tenant, "text"), Name_Day, "date"),
                Name_a, "int"), Name_b, "int"), Name_c, "int"), Name_v, "text"),
            <<Name_tenant, Name_Day>>),
        <<Name_a, Name_b, Name_c>>)

\* app.logs: id uuid (partition key)
TableLogs == SetPartitionKey(AddColumn(NewTable(Name_logs), Name_id, "uuid"), <<Name_id>>)

FixtureSchema ==
    NewSchema((Name_ks :> NewKeyspace(Name_ks, (Name_users :> TableUsers)
                                               @@ (Name_events :> TableEvents)))
              @@ (Name_app :> NewKeyspace(Name_app, (Name_logs :> TableLogs))))

Schemas == {NilSchema, FixtureSchema}

\* keyspace names a query or the caller may give: none, known, and unknown ones at
\* edit distance 1 ("kz"), 3 ("apples") and more ("orders") from the known names
KeyspaceRefs ==
    {<<>>, Name_ks, <<"k","z">>, <<"a","p","p","l","e","s">>, <<"o","r","d","e","r","s">>}
DefaultKeyspaces == {<<>>, Name_ks, <<"k","z">>}

\* table names a query may give: none, known, and unknown ones at edit distance
\* 1 ("user"), 3 ("us") and more ("accounts") from the known names
TableRefs ==
    {<<>>, Name_users, Name_events, <<"u","s","e","r">>, <<"u","s">>,
     <<"a","c","c","o","u","n","t","s">>}

\* the subsequences of a sequence
RECURSIVE SubSeqs(_)
SubSeqs(s) ==
    IF Len(s) = 0 THEN {<<>>}
    ELSE LET rest == SubSeqs(Tail(s))
         IN  rest \cup {<<Head(s)>> \o r : r \in rest}

\* WHERE column lists: every combination of the key columns of events and of the
\* columns of users, in other letter case, repeated, and unknown columns at edit
\* distance 1 ("nam") and 3 ("tenantxyz") from a column
WhereLists ==
    SubSeqs(<<Name_tenant, Name_Day, Name_a, Name_b, Name_c>>)
    \cup SubSeqs(<<Name_id, Name_name>>)
    \cup { <<<<"I","D">>>>, <<<<"d","a","y">>>>,
           <<<<"d","a","y">>, <<"T","E","N","A","N","T">>, Name_c>>,
           <<Name_id, Name_id>>, <<<<"n","a","m">>>>,
           <<<<"t","e","n","a","n","t","x","y","z">>>> }

StatementTypes ==
    {StatementSelect, StatementInsert, StatementUpdate, StatementDelete,
     StatementBatch, StatementUse}

SelectLists == {<<Star>>, <<Name_name>>}
Limits == {-1, 10, 5000}
LimitThresholds == {0, 100}
FunctionCallLists ==
    { <<>>, <<FunctionCall("count", 0, FALSE)>>, <<FunctionCall("count", 1, TRUE)>>,
      <<FunctionCall("count", 1, FALSE), FunctionCall("now", 1, FALSE)>>,
      <<FunctionCall("myudf", 3, FALSE), FunctionCall("token", 0, FALSE)>> }

\* addColumn: refs.Columns lists each referenced column once, in order of appearance
RECURSIVE Dedup(_)
Dedup(s) ==
    IF Len(s) = 0 THEN <<>>
    ELSE LET front == Dedup(SubSeq(s, 1, Len(s) - 1))
         IN  IF s[Len(s)] \in Range(front) THEN front ELSE Append(front, s[Len(s)])

\* the references of a statement with the given select list and WHERE columns
RefsOf(keyspace, table, selectColumns, whereColumns, fcalls, allow, limit) ==
    References(keyspace, table,
               Dedup(SelectSeq(selectColumns, LAMBDA col : col # Star) \o whereColumns),
               selectColumns, whereColumns, fcalls, allow, limit)

Options(s, defaultKeyspace, star, noLimit, threshold) ==
    [Schema |-> s, DefaultKeyspace |-> defaultKeyspace, WarnOnSelectStar |-> star,
     WarnOnNoLimit |-> noLimit, LargeLimitThreshold |-> threshold]

\* DefaultOptions, with the caller's schema and default keyspace
DefaultOptions(s, defaultKeyspace) == Options(s, defaultKeyspace, FALSE, FALSE, 0)

Parsed(refs, stmtType, syntaxErrors) ==
    [refs |-> refs, stmtType |-> stmtType, syntaxErrors |-> syntaxErrors]

\* what the extractor can return for a statement of a type: only SELECT has a
\* select list, LIMIT and ALLOW FILTERING; INSERT has no WHERE clause; USE names
\* no table and no column
Extractable(ty, refs) ==
    /\ ty # StatementSelect =>
           refs.SelectColumns = <<>> /\ refs.Limit = -1 /\ ~refs.HasAllowFiltering
    /\ ty = StatementInsert => refs.WhereColumns = <<>>
    /\ ty = StatementUse =>
           refs.Keyspace = <<>> /\ refs.Table = <<>> /\ refs.Columns = <<>>
    /\ refs.Keyspace # <<>> => refs.Table # <<>>

\* statements that vary in what they reference, analysed under default warnings
InitReferences ==
    \E s \in Schemas, dk \in DefaultKeyspaces, ks \in KeyspaceRefs, t \in TableRefs,
       w \in WhereLists, ty \in StatementTypes, n \in 0..MaxSyntaxErrors :
        LET sel == IF ty = StatementSelect THEN <<Star>> ELSE <<>>
        IN  /\ Extractable(ty, RefsOf(ks, t, sel, w, <<>>, FALSE, -1))
            /\ opts = DefaultOptions(s, dk)
            /\ parsed = Parsed(RefsOf(ks, t, sel, w, <<>>, FALSE, -1), ty, n)

\* statements on ks.users that vary in what the warnings and function checks read
InitWarnings ==
    \E s \in Schemas, star \in BOOLEAN, noLimit \in BOOLEAN, th \in LimitThresholds,
       sel \in SelectLists, w \in {<<>>, <<Name_id>>}, f \in FunctionCallLists,
       allow \in BOOLEAN, limit \in Limits, ty \in StatementTypes \ {StatementUse},
       n \in 0..MaxSyntaxErrors :
        LET refs == IF ty = StatementSelect
                    THEN RefsOf(<<>>, Name_users, sel, w, f, allow, limit)
                    ELSE RefsOf(<<>>, Name_users, <<>>,
                                IF ty = StatementInsert THEN <<>> ELSE w, f, FALSE, -1)
        IN  /\ opts = Options(s, Name_ks, star, noLimit, th)
            /\ parsed = Parsed(refs, ty, n)

InitAnalyze ==
    /\ pc = "ready"
    /\ InitReferences \/ InitWarnings
    /\ result = IdleResult
    /\ SchemaIdle /\ DiagIdle /\ CallIdle

\* the keyspace validateSchema resolves for refs, if any
ResolvedKeyspace(refs, o) ==
    IF refs.Keyspace # <<>> THEN refs.Keyspace ELSE o.DefaultKeyspace

\* Analyze(cql, opts)
Analyze ==
    /\ pc = "ready"
    /\ \E ksNames \in KeyspaceNames(opts.Schema) :
       \E tblNames \in (IF HasKeyspace(opts.Schema, ResolvedKeyspace(parsed.refs, opts))
                        THEN TableNames(opts.Schema.Keyspaces[
                                 ResolvedKeyspace(parsed.refs, opts)])
                        ELSE {<<>>}) :
           result' = AnalyzeResult(parsed, opts, ksNames, tblNames)
    /\ pc' = "done"
    /\ UNCHANGED <<tbl, calls, opts, parsed, rawMessage, query, transform, given, returned>>

NextAnalyze == Analyze

SpecAnalyze == InitAnalyze /\ [][NextAnalyze]_vars

-----------------------------------------------------------------------------
(* Properties of Analyze.                                                  *)

\* the entries of a list of findings that have the given type
OfType(findings, type) == SelectSeq(findings, LAMBDA f : f.Type = type)

Analyzed == pc = "done" /\ result.IsValid

\* validation reached a table: the schema is supplied, the statement names a table,
\* and keyspace and table exist
KeyspaceResolved ==
    /\ Analyzed
    /\ ~opts.Schema.IsNil
    /\ result.References.Table # <<>>
    /\ result.References.Keyspace # <<>>
    /\ result.References.Keyspace \in DOMAIN opts.Schema.Keyspaces

TableResolved ==
    /\ KeyspaceResolved
    /\ result.References.Table
           \in DOMAIN opts.Schema.Keyspaces[result.References.Keyspace].Tables

ResolvedTable ==
    opts.Schema.Keyspaces[result.References.Keyspace].Tables[result.References.Table]

\* column name col is restricted in WHERE, compared without regard to letter case
Restricted(col) ==
    \E w \in Range(result.References.WhereColumns) : ToLower(w) = ToLower(col)

\* the partition-key columns of the resolved table that WHERE does not restrict
AbsentPartitionKey == SelectSeq(ResolvedTable.PartitionKey, LAMBDA col : ~Restricted(col))

MissingPartitionKeyText(names) ==
    Sprintf("Query is missing partition key column(s): %s", <<Join(names, <<",", " ">>)>>)

\* `SELECT * FROM ks.users WHERE name = 'x'` against the fixture schema
IsExampleC1 ==
    /\ opts.Schema = FixtureSchema
    /\ parsed.stmtType = StatementSelect /\ parsed.syntaxErrors = 0
    /\ parsed.refs.Keyspace = Name_ks /\ parsed.refs.Table = Name_users
    /\ parsed.refs.SelectColumns = <<Star>>
    /\ parsed.refs.WhereColumns = <<Name_name>>

\* C1: a SELECT, UPDATE or DELETE on a resolved table whose WHERE columns lack (without
\* regard to case) at least one partition-key column gets exactly one
\* missing_partition_key finding, of severity error, whose message lists exactly the
\* missing partition-key columns; for SELECT * FROM ks.users WHERE name = 'x' it
\* names id.
C1_MissingPartitionKey ==
    /\ ( /\ TableResolved
         /\ result.Type \in {StatementSelect, StatementUpdate, StatementDelete}
         /\ Len(AbsentPartitionKey) > 0 )
       => LET found == OfType(result.Warnings, WarnMissingPartitionKey)
          IN  /\ Len(found) = 1
              /\ found[1].Severity = SeverityError
              /\ found[1].Message = MissingPartitionKeyText(AbsentPartitionKey)
    /\ (pc = "done" /\ IsExampleC1)
       => LET found == OfType(result.Warnings, WarnMissingPartitionKey)
          IN  /\ Len(found) = 1
              /\ found[1].Severity = SeverityError
              /\ found[1].Message = MissingPartitionKeyText(<<Name_id>>)

\* C1 witness: a statement on ks.events that restricts one of the two partition-key
\* columns, in another letter case, has been analysed
C1_Witness ==
    /\ TableResolved
    /\ result.Type = StatementUpdate
    /\ result.References.Table = Name_events
    /\ result.References.WhereColumns = <<<<"d","a","y">>>>
    /\ AbsentPartitionKey = <<Name_tenant>>
    /\ Len(OfType(result.Warnings, WarnMissingPartitionKey)) = 1

\* C2: resolution stops at the first unresolved level. An unknown keyspace (explicit,
\* else the default) gives exactly one unknown_keyspace error and no unknown_table,
\* unknown_column, missing_partition_key or missing_clustering_key finding; a known
\* keyspace with an unknown table gives exactly one unknown_table error and no
\* unknown_column, missing_partition_key or missing_clustering_key finding.
C2_ResolutionStops ==
    /\ ( /\ Analyzed /\ ~opts.Schema.IsNil
         /\ result.References.Table # <<>>
         /\ result.References.Keyspace # <<>>
         /\ result.References.Keyspace \notin DOMAIN opts.Schema.Keyspaces )
       => /\ Len(OfType(result.SchemaErrors, ErrUnknownKeyspace)) = 1
          /\ OfType(result.SchemaErrors, ErrUnknownKeyspace)[1].Object
                 = result.References.Keyspace
          /\ OfType(result.SchemaErrors, ErrUnknownTable) = <<>>
          /\ OfType(result.SchemaErrors, ErrUnknownColumn) = <<>>
          /\ OfType(result.Warnings, WarnMissingPartitionKey) = <<>>
          /\ OfType(result.Warnings, WarnMissingClusteringKey) = <<>>
    /\ (KeyspaceResolved /\ ~TableResolved)
       => /\ Len(OfType(result.SchemaErrors, ErrUnknownTable)) = 1
          /\ OfType(result.SchemaErrors, ErrUnknownTable)[1].Object
                 = result.References.Table
          /\ OfType(result.SchemaErrors, ErrUnknownColumn) = <<>>
          /\ OfType(result.Warnings, WarnMissingPartitionKey) = <<>>
          /\ OfType(result.Warnings, WarnMissingClusteringKey) = <<>>

\* C2 witness: a statement naming an unknown keyspace and a table that the default
\* keyspace does not have, with WHERE columns, has been analysed
C2_Witness ==
    /\ Analyzed /\ ~opts.Schema.IsNil
    /\ parsed.refs.Keyspace = <<"k","z">>
    /\ opts.DefaultKeyspace = Name_ks
    /\ parsed.refs.Table = <<"u","s","e","r">>
    /\ parsed.stmtType = StatementSelect
    /\ Len(parsed.refs.WhereColumns) > 0
    /\ Len(OfType(result.SchemaErrors, ErrUnknownKeyspace)) = 1

\* C3: when analysis reports a syntax error, the result has no schema error and no
\* warning, whatever the schema and the options.
C3_SyntaxErrorsShortCircuit ==
    (pc = "done" /\ result.SyntaxErrors > 0)
        => result.SchemaErrors = <<>> /\ result.Warnings = <<>>

\* C3 witness: a SELECT * without WHERE, with a syntax error and an invalid count()
\* call, has been analysed with a schema and every warning enabled
C3_Witness ==
    /\ pc = "done" /\ result.SyntaxErrors > 0
    /\ ~opts.Schema.IsNil
    /\ opts.WarnOnSelectStar /\ opts.WarnOnNoLimit
    /\ parsed.stmtType = StatementSelect
    /\ parsed.refs.SelectColumns = <<Star>>
    /\ parsed.refs.WhereColumns = <<>>
    /\ parsed.refs.FunctionCalls = <<FunctionCall("count", 0, FALSE)>>

\* the positions in the clustering key of the resolved table whose column is
\* restricted in WHERE although an earlier clustering column is not
AfterGap ==
    LET ck == ResolvedTable.ClusteringKey
    IN  SelectSeq([i \in 1..Len(ck) |-> i],
                  LAMBDA i : Restricted(ck[i]) /\ \E j \in 1..(i - 1) : ~Restricted(ck[j]))

ClusteringText(col) ==
    Sprintf("Clustering column '%s' is used without preceding clustering columns", <<col>>)

\* validation reached the key checks with every partition-key column restricted
PartitionKeyComplete ==
    /\ TableResolved
    /\ IsDML(result.Type) /\ result.Type # StatementInsert
    /\ AbsentPartitionKey = <<>>

\* C4: with the partition key complete, the missing_clustering_key findings are, in
\* clustering-key order, one warning (severity warning) naming each clustering column
\* that is restricted after an unrestricted earlier one, and there is none when the
\* restricted clustering columns form a prefix. For clustering key (a, b, c):
\* restricting a and c warns naming c; restricting a and b gives none.
C4_ClusteringPrefix ==
    PartitionKeyComplete
    => LET found == OfType(result.Warnings, WarnMissingClusteringKey)
           ck    == ResolvedTable.ClusteringKey
       IN  /\ Len(found) = Len(AfterGap)
           /\ \A k \in 1..Len(found) :
                  /\ found[k].Severity = SeverityWarning
                  /\ found[k].Message = ClusteringText(ck[AfterGap[k]])
           /\ (\E n \in 0..Len(ck) : \A i \in 1..Len(ck) : Restricted(ck[i]) <=> i <= n)
                  => found = <<>>
           /\ ( /\ ck = <<Name_a, Name_b, Name_c>>
                /\ Restricted(Name_a) /\ ~Restricted(Name_b) /\ Restricted(Name_c) )
                  => Len(found) = 1 /\ found[1].Message = ClusteringText(Name_c)
           /\ ( /\ ck = <<Name_a, Name_b, Name_c>>
                /\ Restricted(Name_a) /\ Restricted(Name_b) /\ ~Restricted(Name_c) )
                  => found = <<>>

\* C4 witness: a DELETE on ks.events that restricts the partition key and the
\* clustering columns a and c, but not b, has been analysed and warned about c
C4_Witness ==
    /\ PartitionKeyComplete
    /\ result.Type = StatementDelete
    /\ result.References.WhereColumns = <<Name_tenant, Name_Day, Name_a, Name_c>>
    /\ Len(OfType(result.Warnings, WarnMissingClusteringKey)) = 1

\* the warning types generateWarnings can produce
SelectWarningKinds ==
    {WarnSelectStar, WarnNoLimit, WarnLargeLimit, WarnNoWhereClause,
     WarnAllowFilteringPresent}

\* every setting of the options of AnalyzeOptions
OptionSettings ==
    {Options(s, dk, star, noLimit, th) :
        s \in Schemas, dk \in DefaultKeyspaces, star \in BOOLEAN, noLimit \in BOOLEAN,
        th \in LimitThresholds}

\* SELECT statements on ks.users
SelectStatements ==
    {Parsed(RefsOf(<<>>, Name_users, sel, w, <<>>, allow, limit), StatementSelect, 0) :
        sel \in SelectLists, w \in {<<>>, <<Name_id>>}, allow \in BOOLEAN,
        limit \in Limits}

\* the result of analysing statement p under options o
AnalysisOf(p, o) ==
    AnalyzeResult(p, o, CHOOSE names \in KeyspaceNames(o.Schema) : TRUE,
                  IF HasKeyspace(o.Schema, ResolvedKeyspace(p.refs, o))
                  THEN CHOOSE names \in
                           TableNames(o.Schema.Keyspaces[ResolvedKeyspace(p.refs, o)]) : TRUE
                  ELSE <<>>)

\* C5 as claimed: for each of the five SELECT warnings there is an option setting under
\* which analysis emits no warning of that kind for any SELECT statement.
C5_EveryWarningHasOptOut ==
    (Analyzed /\ result.Type = StatementSelect)
    => \A kind \in SelectWarningKinds :
           \E o \in OptionSettings :
               \A p \in SelectStatements \cup {parsed} :
                   OfType(AnalysisOf(p, o).Warnings, kind) = <<>>

\* C5 as amended: select_star, no_limit and large_limit are switched off by
\* WarnOnSelectStar = false, WarnOnNoLimit = false and LargeLimitThreshold = 0; no option
\* governs no_where_clause and allow_filtering_present: every valid SELECT without WHERE
\* columns, and every valid SELECT with ALLOW FILTERING, gets its warning, exactly once.
C5_ThreeOptOuts ==
    (Analyzed /\ result.Type = StatementSelect)
    => /\ ~opts.WarnOnSelectStar => OfType(result.Warnings, WarnSelectStar) = <<>>
       /\ ~opts.WarnOnNoLimit => OfType(result.Warnings, WarnNoLimit) = <<>>
       /\ opts.LargeLimitThreshold = 0 => OfType(result.Warnings, WarnLargeLimit) = <<>>
       /\ Len(OfType(result.Warnings, WarnNoWhereClause))
              = (IF result.References.WhereColumns = <<>> THEN 1 ELSE 0)
       /\ Len(OfType(result.Warnings, WarnAllowFilteringPresent))
              = (IF result.References.HasAllowFiltering THEN 1 ELSE 0)

\* C5 witness: a SELECT * with ALLOW FILTERING, a LIMIT and no WHERE has been analysed
\* with every option switched off, and carries the two ungoverned warnings
C5_Witness ==
    /\ Analyzed /\ result.Type = StatementSelect
    /\ ~opts.WarnOnSelectStar /\ ~opts.WarnOnNoLimit /\ opts.LargeLimitThreshold = 0
    /\ result.References.SelectColumns = <<Star>>
    /\ result.References.Limit = 5000
    /\ result.References.HasAllowFiltering
    /\ result.References.WhereColumns = <<>>
    /\ Len(result.Warnings) = 2

\* an unknown-name error e, raised while the existing names were candidates, follows
\* the threshold-3 rule: a name within edit distance 3 (letter case ignored) makes the
\* suggestion name a nearest one, and the suggestion is absent only if none is
WithinThree(e, candidates) ==
    LET dist(n) == levenshtein(ToLower(e.Object), ToLower(n))
    IN  IF candidates = {} THEN e.Suggestion = NoText
        ELSE LET dmin == MinOf({dist(n) : n \in candidates})
             IN  IF dmin <= 3
                 THEN \E n \in candidates :
                          dist(n) = dmin /\ e.Suggestion = DidYouMean(n)
                 ELSE e.Suggestion = NoText

\* C6 as claimed: the suggestion of an unknown_keyspace, unknown_table or unknown_column
\* error names the nearest existing name whenever that name is within edit distance 3,
\* and is absent only when every existing name is farther than 3.
C6_ThresholdThree ==
    (Analyzed /\ ~opts.Schema.IsNil)
    => /\ \A e \in Range(OfType(result.SchemaErrors, ErrUnknownKeyspace)) :
              WithinThree(e, DOMAIN opts.Schema.Keyspaces)
       /\ \A e \in Range(OfType(result.SchemaErrors, ErrUnknownTable)) :
              WithinThree(e, DOMAIN opts.Schema.Keyspaces[result.References.Keyspace].Tables)
       /\ \A e \in Range(OfType(result.SchemaErrors, ErrUnknownColumn)) :
              WithinThree(e, DOMAIN ResolvedTable.Columns)

(***************************************************************************)
(* Properties of the table builder                                         *)
(***************************************************************************)

\* the 0-based indexes at which name occurs in list
IndexesOf(name, list) == {i - 1 : i \in {j \in 1..Len(list) : list[j] = name}}

\* C7 as claimed: after any sequence of builder calls, every existing column named in
\* the partition-key or clustering-key list has Position equal to a 0-based index of its
\* name within partition-key ++ clustering-key.
C7_PositionIsKeyIndex ==
    LET key == tbl.PartitionKey \o tbl.ClusteringKey
    IN  pc = "build"
        => \A name \in Range(key) \cap DOMAIN tbl.Columns :
               tbl.Columns[name].Position \in IndexesOf(name, key)

\* C8 as claimed: after any sequence of builder calls, no column name is in both the
\* partition-key list and the clustering-key list.
C8_KeysDisjoint ==
    pc = "build" => Range(tbl.PartitionKey) \cap Range(tbl.ClusteringKey) = {}

-----------------------------------------------------------------------------
(* pkg/parse: syntax error diagnostics.  Messages, queries, templates and   *)
(* results are texts; regular expressions are sequences of items matched    *)
(* with leftmost-first, greedy semantics as Go's regexp package does.       *)

Digits == <<"0","1","2","3","4","5","6","7","8","9">>

\* the characters of \w
WordChars == Range(LowerLetters) \cup Range(UpperLetters) \cup Range(Digits) \cup {"_"}

\* the characters of \s, which strings.TrimSpace and strings.Fields also cut
Whitespace == {" ", "\t", "\n", "\r", "\f"}

\* strings.TrimLeft(s, cutset)
RECURSIVE TrimLeft(_, _)
TrimLeft(s, cutset) ==
    IF s # <<>> /\ s[1] \in cutset THEN TrimLeft(Tail(s), cutset) ELSE s

\* strings.TrimRight(s, cutset)
RECURSIVE TrimRight(_, _)
TrimRight(s, cutset) ==
    IF s # <<>> /\ s[Len(s)] \in cutset
    THEN TrimRight(SubSeq(s, 1, Len(s) - 1), cutset)
    ELSE s

\* strings.TrimSpace
TrimSpace(s) == TrimLeft(TrimRight(s, Whitespace), Whitespace)

\* strings.Fields: the maximal runs of non-space characters
RECURSIVE Fields(_)
Fields(s) ==
    LET t == TrimLeft(s, Whitespace)
    IN  IF t = <<>> THEN <<>>
        ELSE LET spaces == {i \in 1..Len(t) : t[i] \in Whitespace}
                 n == IF spaces = {} THEN Len(t) + 1 ELSE MinOf(spaces)
             IN  <<SubSeq(t, 1, n - 1)>> \o Fields(SubSeq(t, n, Len(t)))

\* strings.HasPrefix
HasPrefix(s, prefix) ==
    Len(prefix) <= Len(s) /\ SubSeq(s, 1, Len(prefix)) = prefix

\* strings.ReplaceAll(s, old, new), for a non-empty old
RECURSIVE ReplaceAll(_, _, _)
ReplaceAll(s, old, new) ==
    IF s = <<>> THEN <<>>
    ELSE IF HasPrefix(s, old)
    THEN new \o ReplaceAll(SubSeq(s, Len(old) + 1, Len(s)), old, new)
    ELSE <<s[1]>> \o ReplaceAll(Tail(s), old, new)

\* regular expression items: a literal, an alternation of literals, one character of a
\* class, one or more characters of a class (greedy), \b, and the two ends of a
\* capture group; neg makes the class the complement of set
Lit(s) == [k |-> "lit", s |-> s]
Alt(options) == [k |-> "alt", options |-> options]
One(set, neg) == [k |-> "one", set |-> set, neg |-> neg]
Plus(set, neg) == [k |-> "plus", set |-> set, neg |-> neg]
WordBoundary == [k |-> "wb"]
Open == [k |-> "open"]
Close == [k |-> "close"]

\* regexp.MustCompile: ci is the (?i) flag
Regexp(ci, items) == [nil |-> FALSE, ci |-> ci, items |-> items]

\* a nil *regexp.Regexp
NilRegexp == [nil |-> TRUE, ci |-> FALSE, items |-> <<>>]

InClass(c, item) == (c \in item.set) # item.neg

NoMatch == [ok |-> FALSE, end |-> 0, groups |-> <<>>]

\* match items idx.. of re against s from position pos; openAt is where the open capture
\* group started, groups the captures closed so far
RECURSIVE MatchFrom(_, _, _, _, _, _)
MatchFrom(re, idx, s, pos, openAt, groups) ==
    IF idx > Len(re.items) THEN [ok |-> TRUE, end |-> pos, groups |-> groups]
    ELSE
    LET item == re.items[idx]
        fold(t) == IF re.ci THEN ToUpper(t) ELSE t
        litAt(l) == /\ pos + Len(l) - 1 <= Len(s)
                    /\ fold(SubSeq(s, pos, pos + Len(l) - 1)) = fold(l)
        rest(p) == MatchFrom(re, idx + 1, s, p, openAt, groups)
        isWord(i) == i >= 1 /\ i <= Len(s) /\ s[i] \in WordChars
    IN  CASE item.k = "lit" ->
                IF litAt(item.s) THEN rest(pos + Len(item.s)) ELSE NoMatch
          [] item.k = "alt" ->
                LET good == {j \in 1..Len(item.options) :
                                /\ litAt(item.options[j])
                                /\ rest(pos + Len(item.options[j])).ok}
                IN  IF good = {} THEN NoMatch
                    ELSE rest(pos + Len(item.options[MinOf(good)]))
          [] item.k = "one" ->
                IF pos <= Len(s) /\ InClass(s[pos], item) THEN rest(pos + 1) ELSE NoMatch
          [] item.k = "plus" ->
                LET stops == {i \in pos..Len(s) : ~InClass(s[i], item)}
                    run   == IF stops = {} THEN Len(s) - pos + 1 ELSE MinOf(stops) - pos
                    good  == {n \in 1..run : rest(pos + n).ok}
                IN  IF good = {} THEN NoMatch ELSE rest(pos + MaxOf(good))
          [] item.k = "wb" ->
                IF isWord(pos - 1) # isWord(pos) THEN rest(pos) ELSE NoMatch
          [] item.k = "open" ->
                MatchFrom(re, idx + 1, s, pos, pos, groups)
          [] item.k = "close" ->
                MatchFrom(re, idx + 1, s, pos, openAt,
                          Append(groups, SubSeq(s, openAt, pos - 1)))

\* (*Regexp).FindStringSubmatch: the leftmost match and its capture groups, <<>> for nil
FindStringSubmatch(re, s) ==
    LET starts == {i \in 1..(Len(s) + 1) : MatchFrom(re, 1, s, i, i, <<>>).ok}
    IN  IF starts = {} THEN <<>>
        ELSE LET i == MinOf(starts)
                 m == MatchFrom(re, 1, s, i, i, <<>>)
             IN  <<SubSeq(s, i, m.end - 1)>> \o m.groups

\* (*Regexp).MatchString
MatchString(re, s) == FindStringSubmatch(re, s) # <<>>

\* pkg/parse/levenshtein.go: the keyword table
cqlKeywords ==
  <<
    <<"S","E","L","E","C","T">>, <<"F","R","O","M">>, <<"W","H","E","R","E">>,
    <<"A","N","D">>, <<"O","R">>, <<"I","N">>, <<"I","N","S","E","R","T">>,
    <<"I","N","T","O">>, <<"V","A","L","U","E","S">>, <<"U","P","D","A","T","E">>,
    <<"S","E","T">>, <<"D","E","L","E","T","E">>, <<"U","S","I","N","G">>,
    <<"T","T","L">>, <<"T","I","M","E","S","T","A","M","P">>, <<"I","F">>,
    <<"E","X","I","S","T","S">>, <<"N","O","T">>, <<"N","U","L","L">>,
    <<"L","I","M","I","T">>, <<"O","R","D","E","R">>, <<"B","Y">>, <<"A","S","C">>,
    <<"D","E","S","C">>, <<"A","L","L","O","W">>,
    <<"F","I","L","T","E","R","I","N","G">>, <<"T","O","K","E","N">>,
    <<"C","O","N","T","A","I","N","S">>, <<"K","E","Y">>, <<"C","R","E","A","T","E">>,
    <<"A","L","T","E","R">>, <<"D","R","O","P">>, <<"T","R","U","N","C","A","T","E">>,
    <<"T","A","B","L","E">>, <<"K","E","Y","S","P","A","C","E">>,
    <<"I","N","D","E","X">>, <<"T","Y","P","E">>,
    <<"M","A","T","E","R","I","A","L","I","Z","E","D">>, <<"V","I","E","W">>,
    <<"F","U","N","C","T","I","O","N">>, <<"A","G","G","R","E","G","A","T","E">>,
    <<"T","R","I","G","G","E","R">>, <<"P","R","I","M","A","R","Y">>,
    <<"C","L","U","S","T","E","R","I","N","G">>, <<"C","O","M","P","A","C","T">>,
    <<"S","T","O","R","A","G","E">>, <<"W","I","T","H">>,
    <<"O","P","T","I","O","N","S">>, <<"R","E","P","L","I","C","A","T","I","O","N">>,
    <<"D","U","R","A","B","L","E">>, <<"W","R","I","T","E","S">>,
    <<"C","O","M","M","E","N","T">>, <<"S","T","A","T","I","C">>,
    <<"F","R","O","Z","E","N">>, <<"C","O","U","N","T","E","R">>,
    <<"G","R","A","N","T">>, <<"R","E","V","O","K","E">>, <<"R","O","L","E">>,
    <<"U","S","E","R">>, <<"P","A","S","S","W","O","R","D">>,
    <<"S","U","P","E","R","U","S","E","R">>,
    <<"N","O","S","U","P","E","R","U","S","E","R">>, <<"L","O","G","I","N">>,
    <<"N","O","L","O","G","I","N">>, <<"P","E","R","M","I","S","S","I","O","N">>,
    <<"P","E","R","M","I","S","S","I","O","N","S">>, <<"A","L","L">>, <<"O","N">>,
    <<"T","O">>, <<"A","S","C","I","I">>, <<"B","I","G","I","N","T">>,
    <<"B","L","O","B">>, <<"B","O","O","L","E","A","N">>, <<"D","A","T","E">>,
    <<"D","E","C","I","M","A","L">>, <<"D","O","U","B","L","E">>,
    <<"F","L","O","A","T">>, <<"I","N","E","T">>, <<"I","N","T">>,
    <<"S","M","A","L","L","I","N","T">>, <<"T","E","X","T">>, <<"T","I","M","E">>,
    <<"T","I","M","E","U","U","I","D">>, <<"T","I","N","Y","I","N","T">>,
    <<"U","U","I","D">>, <<"V","A","R","C","H","A","R">>, <<"V","A","R","I","N","T">>,
    <<"L","I","S","T">>, <<"M","A","P">>, <<"S","E","T">>, <<"T","U","P","L","E">>,
    <<"U","S","E">>, <<"B","A","T","C","H">>, <<"B","E","G","I","N">>,
    <<"A","P","P","L","Y">>, <<"U","N","L","O","G","G","E","D">>,
    <<"L","O","G","G","E","D">>, <<"A","S">>, <<"D","I","S","T","I","N","C","T">>,
    <<"C","O","U","N","T">>, <<"J","S","O","N">>, <<"C","A","S","T">>
  >>

\* SuggestKeyword: const maxDistance
maxDistance == 2

\* the loop of SuggestKeyword updating on "dist <= bestDistance": the last keyword of
\* least distance wins
SuggestLoopLastWins(input) ==
    LET eligible == {i \in DOMAIN cqlKeywords :
                        /\ Len(cqlKeywords[i]) > 2
                        /\ Len(cqlKeywords[i]) - Len(input) \in -maxDistance..maxDistance}
        dist == [i \in eligible |-> levenshteinDistance(input, cqlKeywords[i])]
        close == {i \in eligible : dist[i] <= maxDistance}
    IN  IF close = {} THEN <<>>
        ELSE cqlKeywords[MaxOf({i \in close : \A j \in close : dist[i] <= dist[j]})]

\* SuggestKeyword lines 59-82: the loop keeps the first keyword, in table order, of least
\* distance among the keywords longer than 2 characters whose length differs from the
\* input's by at most maxDistance and whose distance is at most maxDistance
SuggestLoop(input) ==
    LET lenDiff(kw) == IF Len(kw) - Len(input) < 0 THEN Len(input) - Len(kw)
                       ELSE Len(kw) - Len(input)
        eligible == {i \in DOMAIN cqlKeywords :
                        /\ ~(Len(cqlKeywords[i]) <= 2)
                        /\ ~(lenDiff(cqlKeywords[i]) > maxDistance)}
        dist == [i \in eligible |-> levenshteinDistance(input, cqlKeywords[i])]
        close == {i \in eligible : dist[i] <= maxDistance}
    IN  IF close = {} THEN <<>>
        ELSE cqlKeywords[MinOf({i \in close : \A j \in close : dist[i] <= dist[j]})]

\* SuggestKeyword: the closest keyword, <<>> (the empty string) for none
SuggestKeyword(token) ==
    LET input == ToUpper(TrimSpace(token))
    IN  IF input = <<>> THEN <<>>
        ELSE IF Len(input) < 4 THEN <<>>
        ELSE IF \E i \in DOMAIN cqlKeywords : input = cqlKeywords[i] THEN <<>>
        ELSE SuggestLoop(input)

\* the string literals of error_transform.go and of the pattern table
\* "'"
T_Quote ==
    <<"'">>
\* "no viable alternative"
T_NoViableAlternative ==
    <<"n","o"," ","v","i","a","b","l","e"," ","a","l","t","e","r","n","a","t","i","v","e">>
\* "extraneous input"
T_ExtraneousInput ==
    <<"e","x","t","r","a","n","e","o","u","s"," ","i","n","p","u","t">>
\* "no viable alternative at input '"
T_NoViableAt ==
    <<"n","o"," ","v","i","a","b","l","e"," ","a","l","t","e","r","n","a","t","i","v","e"," ",
      "a","t"," ","i","n","p","u","t"," ","'">>
\* "mismatched input '"
T_MismatchedInput ==
    <<"m","i","s","m","a","t","c","h","e","d"," ","i","n","p","u","t"," ","'">>
\* "extraneous input '"
T_ExtraneousInputQ ==
    <<"e","x","t","r","a","n","e","o","u","s"," ","i","n","p","u","t"," ","'">>
\* "' expecting"
T_Expecting ==
    <<"'"," ","e","x","p","e","c","t","i","n","g">>
\* "' expecting {"
T_ExpectingSet ==
    <<"'"," ","e","x","p","e","c","t","i","n","g"," ","{">>
\* "' expecting "
T_ExpectingOne ==
    <<"'"," ","e","x","p","e","c","t","i","n","g"," ">>
\* "missing '"
T_Missing ==
    <<"m","i","s","s","i","n","g"," ","'">>
\* "' at '"
T_At ==
    <<"'"," ","a","t"," ","'">>
\* "missing ';' at '<EOF>'"
T_MissingSemicolon ==
    <<"m","i","s","s","i","n","g"," ","'",";","'"," ","a","t"," ","'","<","E","O","F",">","'">>
\* "token recognition error at: '"
T_TokenRecognition ==
    <<"t","o","k","e","n"," ","r","e","c","o","g","n","i","t","i","o","n"," ","e","r","r","o",
      "r"," ","a","t",":"," ","'">>
\* "rule "
T_Rule ==
    <<"r","u","l","e"," ">>
\* " failed predicate"
T_FailedPredicate ==
    <<" ","f","a","i","l","e","d"," ","p","r","e","d","i","c","a","t","e">>
\* "FORM"
T_FORM ==
    <<"F","O","R","M">>
\* "WHER"
T_WHER ==
    <<"W","H","E","R">>
\* "Unknown keyword 'FORM'"
T_UnknownKeywordFORM ==
    <<"U","n","k","n","o","w","n"," ","k","e","y","w","o","r","d"," ","'","F","O","R","M","'">>
\* "Did you mean 'FROM'?"
T_DidYouMeanFROM ==
    <<"D","i","d"," ","y","o","u"," ","m","e","a","n"," ","'","F","R","O","M","'","?">>
\* "Unknown keyword 'WHER'"
T_UnknownKeywordWHER ==
    <<"U","n","k","n","o","w","n"," ","k","e","y","w","o","r","d"," ","'","W","H","E","R","'">>
\* "Did you mean 'WHERE'?"
T_DidYouMeanWHERE ==
    <<"D","i","d"," ","y","o","u"," ","m","e","a","n"," ","'","W","H","E","R","E","'","?">>
\* "Unknown keyword '$1'"
T_UnknownKeyword1 ==
    <<"U","n","k","n","o","w","n"," ","k","e","y","w","o","r","d"," ","'","$","1","'">>
\* "Did you mean 'SELECT'?"
T_DidYouMeanSELECT ==
    <<"D","i","d"," ","y","o","u"," ","m","e","a","n"," ","'","S","E","L","E","C","T","'","?">>
\* "Did you mean 'INSERT'?"
T_DidYouMeanINSERT ==
    <<"D","i","d"," ","y","o","u"," ","m","e","a","n"," ","'","I","N","S","E","R","T","'","?">>
\* "Did you mean 'UPDATE'?"
T_DidYouMeanUPDATE ==
    <<"D","i","d"," ","y","o","u"," ","m","e","a","n"," ","'","U","P","D","A","T","E","'","?">>
\* "Did you mean 'DELETE'?"
T_DidYouMeanDELETE ==
    <<"D","i","d"," ","y","o","u"," ","m","e","a","n"," ","'","D","E","L","E","T","E","'","?">>
\* "Unexpected syntax near '$1'"
T_UnexpectedSyntaxNear1 ==
    <<"U","n","e","x","p","e","c","t","e","d"," ","s","y","n","t","a","x"," ","n","e","a","r",
      " ","'","$","1","'">>
\* "Unexpected '$1'"
T_Unexpected1 ==
    <<"U","n","e","x","p","e","c","t","e","d"," ","'","$","1","'">>
\* "Expected one of: $2"
T_ExpectedOneOf2 ==
    <<"E","x","p","e","c","t","e","d"," ","o","n","e"," ","o","f",":"," ","$","2">>
\* "Expected: $2"
T_Expected2 ==
    <<"E","x","p","e","c","t","e","d",":"," ","$","2">>
\* "Remove this or check syntax"
T_RemoveThis ==
    <<"R","e","m","o","v","e"," ","t","h","i","s"," ","o","r"," ","c","h","e","c","k"," ","s",
      "y","n","t","a","x">>
\* "Missing '$1' before '$2'"
T_Missing1Before2 ==
    <<"M","i","s","s","i","n","g"," ","'","$","1","'"," ","b","e","f","o","r","e"," ","'","$",
      "2","'">>
\* "Add '$1'"
T_Add1 ==
    <<"A","d","d"," ","'","$","1","'">>
\* "Missing semicolon at end"
T_MissingSemicolonAtEnd ==
    <<"M","i","s","s","i","n","g"," ","s","e","m","i","c","o","l","o","n"," ","a","t"," ","e",
      "n","d">>
\* "Add ';' at the end of the statement"
T_AddSemicolon ==
    <<"A","d","d"," ","'",";","'"," ","a","t"," ","t","h","e"," ","e","n","d"," ","o","f"," ",
      "t","h","e"," ","s","t","a","t","e","m","e","n","t">>
\* "Invalid character '$1'"
T_InvalidCharacter1 ==
    <<"I","n","v","a","l","i","d"," ","c","h","a","r","a","c","t","e","r"," ","'","$","1","'">>
\* "Remove or escape this character"
T_RemoveOrEscape ==
    <<"R","e","m","o","v","e"," ","o","r"," ","e","s","c","a","p","e"," ","t","h","i","s"," ",
      "c","h","a","r","a","c","t","e","r">>
\* "Invalid syntax in $1"
T_InvalidSyntaxIn1 ==
    <<"I","n","v","a","l","i","d"," ","s","y","n","t","a","x"," ","i","n"," ","$","1">>
\* "Unknown keyword '"
T_UnknownKeyword ==
    <<"U","n","k","n","o","w","n"," ","k","e","y","w","o","r","d"," ","'">>
\* "Did you mean '"
T_DidYouMean ==
    <<"D","i","d"," ","y","o","u"," ","m","e","a","n"," ","'">>
\* "'?"
T_QuoteQuestion ==
    <<"'","?">>

\* [^'] , [^}] , [^{] , \S , \w
NotQuote == Plus({"'"}, TRUE)
NotCloseBrace == Plus({"}"}, TRUE)
NotOpenBrace == One({"{"}, TRUE)
NonSpaces == Plus(Whitespace, TRUE)
Words == Plus(WordChars, FALSE)

ErrorPattern(name, messagePattern, queryPattern, friendlyTemplate, suggestionTemplate) ==
    [Name |-> name, MessagePattern |-> messagePattern, QueryPattern |-> queryPattern,
     FriendlyTemplate |-> friendlyTemplate, SuggestionTemplate |-> suggestionTemplate]

\* (?i)mismatched input '(A|B|...)'
MisspelledPattern(spellings) ==
    Regexp(TRUE, <<Lit(T_MismatchedInput), Open, Alt(spellings), Close, Lit(T_Quote)>>)

\* the registry of error patterns, in table order
errorPatterns ==
    << ErrorPattern("typo-form",
           Regexp(TRUE, <<Alt(<<T_NoViableAlternative, T_ExtraneousInput>>)>>),
           Regexp(TRUE, <<WordBoundary, Lit(T_FORM), WordBoundary>>),
           T_UnknownKeywordFORM, T_DidYouMeanFROM),
       ErrorPattern("typo-wher",
           Regexp(TRUE, <<Alt(<<T_NoViableAlternative, T_ExtraneousInput>>)>>),
           Regexp(TRUE, <<WordBoundary, Lit(T_WHER), WordBoundary>>),
           T_UnknownKeywordWHER, T_DidYouMeanWHERE),
       ErrorPattern("typo-select",
           MisspelledPattern(<<<<"S","E","L","E","C">>, <<"S","L","E","C","T">>, <<"S","E","E","L","C","T">>, <<"S","E","L","E","T">>>>),
           NilRegexp, T_UnknownKeyword1, T_DidYouMeanSELECT),
       ErrorPattern("typo-insert",
           MisspelledPattern(<<<<"I","N","S","R","T">>, <<"I","N","S","E","R">>, <<"I","N","S","R","E","T">>>>),
           NilRegexp, T_UnknownKeyword1, T_DidYouMeanINSERT),
       ErrorPattern("typo-update",
           MisspelledPattern(<<<<"U","D","P","A","T","E">>, <<"U","P","D","A","T">>, <<"U","P","D","T","E">>>>),
           NilRegexp, T_UnknownKeyword1, T_DidYouMeanUPDATE),
       ErrorPattern("typo-delete",
           MisspelledPattern(<<<<"D","E","L","T","E">>, <<"D","E","L","E","T">>, <<"D","E","L","E","E","T">>>>),
           NilRegexp, T_UnknownKeyword1, T_DidYouMeanDELETE),
       ErrorPattern("no-viable-alternative",
           Regexp(FALSE, <<Lit(T_NoViableAt), Open, NotQuote, Close, Lit(T_Quote)>>),
           NilRegexp, T_UnexpectedSyntaxNear1, <<>>),
       ErrorPattern("mismatched-input-expecting",
           Regexp(FALSE, <<Lit(T_MismatchedInput), Open, NotQuote, Close, Lit(T_ExpectingSet),
                           Open, NotCloseBrace, Close, Lit(<<"}">>)>>),
           NilRegexp, T_Unexpected1, T_ExpectedOneOf2),
       ErrorPattern("mismatched-input-single",
           Regexp(FALSE, <<Lit(T_MismatchedInput), Open, NotQuote, Close, Lit(T_ExpectingOne),
                           Open, NotOpenBrace, NonSpaces, Close>>),
           NilRegexp, T_Unexpected1, T_Expected2),
       ErrorPattern("extraneous-input",
           Regexp(FALSE, <<Lit(T_ExtraneousInputQ), Open, NotQuote, Close, Lit(T_Expecting)>>),
           NilRegexp, T_Unexpected1, T_RemoveThis),
       ErrorPattern("missing-token",
           Regexp(FALSE, <<Lit(T_Missing), Open, NotQuote, Close, Lit(T_At),
                           Open, NotQuote, Close, Lit(T_Quote)>>),
           NilRegexp, T_Missing1Before2, T_Add1),
       ErrorPattern("missing-semicolon",
           Regexp(FALSE, <<Lit(T_MissingSemicolon)>>),
           NilRegexp, T_MissingSemicolonAtEnd, T_AddSemicolon),
       ErrorPattern("token-recognition",
           Regexp(FALSE, <<Lit(T_TokenRecognition), Open, NotQuote, Close, Lit(T_Quote)>>),
           NilRegexp, T_InvalidCharacter1, T_RemoveOrEscape),
       ErrorPattern("failed-predicate",
           Regexp(FALSE, <<Lit(T_Rule), Open, Words, Close, Lit(T_FailedPredicate)>>),
           NilRegexp, T_InvalidSyntaxIn1, <<>>) >>

\* expandTemplate: $1, $2, ... replaced in turn by the capture groups; matches[1] is the
\* whole match (Go's matches[0])
RECURSIVE expandLoop(_, _, _)
expandLoop(res, matches, i) ==
    IF i >= Len(matches) THEN res
    ELSE expandLoop(ReplaceAll(res, <<"$", Digits[i + 1]>>, matches[i + 1]), matches, i + 1)

expandTemplate(template, matches) ==
    IF template = <<>> THEN <<>> ELSE expandLoop(template, matches, 1)

\* the two patterns findTypoSuggestion and extractToken try in turn:
\* mismatched input '([^']+)' and extraneous input '([^']+)'
tokenPatterns ==
    << Regexp(FALSE, <<Lit(T_MismatchedInput), Open, NotQuote, Close, Lit(T_Quote)>>),
       Regexp(FALSE, <<Lit(T_ExtraneousInputQ), Open, NotQuote, Close, Lit(T_Quote)>>) >>

\* no viable alternative at input '([^']+)'
noViableRe == Regexp(FALSE, <<Lit(T_NoViableAt), Open, NotQuote, Close, Lit(T_Quote)>>)

\* the cutset findTypoSuggestion trims from the right of the last word
TrailingPunctuation ==
    {";", ",", "(", ")", "[", "]", "{", "}", "=", "<", ">", "!", "@", "#", "$", "%", "^",
     "&", "*"}

\* "Did you mean '" + suggestion + "'?"
DidYouMeanKeyword(suggestion) == T_DidYouMean \o suggestion \o T_QuoteQuestion

\* findTypoSuggestion: the last step, on a "no viable alternative" message
noViableSuggestion(raw) ==
    LET matches == FindStringSubmatch(noViableRe, raw)
    IN  IF Len(matches) > 1
        THEN LET words == Fields(matches[2])
             IN  IF Len(words) > 0
                 THEN LET lastWord == TrimRight(words[Len(words)], TrailingPunctuation)
                          suggestion == SuggestKeyword(lastWord)
                      IN  IF suggestion # <<>> THEN DidYouMeanKeyword(suggestion) ELSE <<>>
                 ELSE <<>>
        ELSE <<>>

RECURSIVE findTypoLoop(_, _)
findTypoLoop(raw, i) ==
    IF i > Len(tokenPatterns) THEN noViableSuggestion(raw)
    ELSE LET matches == FindStringSubmatch(tokenPatterns[i], raw)
         IN  IF Len(matches) > 1 /\ SuggestKeyword(matches[2]) # <<>>
             THEN DidYouMeanKeyword(SuggestKeyword(matches[2]))
             ELSE findTypoLoop(raw, i + 1)

\* findTypoSuggestion (the query is not used by the code)
findTypoSuggestion(raw, q) == findTypoLoop(raw, 1)

RECURSIVE extractTokenLoop(_, _)
extractTokenLoop(raw, i) ==
    IF i > Len(tokenPatterns) THEN <<>>
    ELSE LET matches == FindStringSubmatch(tokenPatterns[i], raw)
         IN  IF Len(matches) > 1 THEN matches[2] ELSE extractTokenLoop(raw, i + 1)

\* extractToken: only the mismatched/extraneous forms, <<>> otherwise
extractToken(raw) == extractTokenLoop(raw, 1)

TransformResult(friendlyMessage, suggestion, patternName) ==
    [FriendlyMessage |-> friendlyMessage, Suggestion |-> suggestion,
     PatternName |-> patternName]

\* TransformError lines 30-54: the result once pattern has matched with matches
applyPattern(pattern, matches, raw, q) ==
    LET expanded       == expandTemplate(pattern.FriendlyTemplate, matches)
        friendly       == IF expanded = <<>> THEN raw ELSE expanded
        suggestion     == expandTemplate(pattern.SuggestionTemplate, matches)
        typoSuggestion == findTypoSuggestion(raw, q)
        token          == extractToken(raw)
    IN  IF typoSuggestion # <<>>
        THEN TransformResult(
                 IF token # <<>> /\ SuggestKeyword(token) # <<>>
                 THEN T_UnknownKeyword \o token \o T_Quote
                 ELSE friendly,
                 typoSuggestion, pattern.Name)
        ELSE TransformResult(friendly, suggestion, pattern.Name)

\* TransformError line 26, ignoring the query pattern
queryAcceptedAlways(pattern, q) == TRUE

\* TransformError line 26: a query pattern, if specified, must also match
queryAccepted(pattern, q) ==
    pattern.QueryPattern.nil \/ MatchString(pattern.QueryPattern, q)

RECURSIVE transformLoop(_, _, _)
transformLoop(raw, q, i) ==
    IF i > Len(errorPatterns) THEN TransformResult(raw, <<>>, "")
    ELSE LET pattern == errorPatterns[i]
             matches == FindStringSubmatch(pattern.MessagePattern, raw)
         IN  IF matches = <<>> THEN transformLoop(raw, q, i + 1)
             ELSE IF ~queryAccepted(pattern, q) THEN transformLoop(raw, q, i + 1)
             ELSE applyPattern(pattern, matches, raw, q)

TransformError(raw, q) == transformLoop(raw, q, 1)

-----------------------------------------------------------------------------
(* Diagnostics specification: TransformError applied to one raw message    *)
(* and one query.                                                          *)

\* offending tokens: misspellings the table lists, other misspellings, a short one, an
\* exact keyword, an identifier and punctuation
Tok_SELEC ==
    <<"S","E","L","E","C">>
Tok_selec ==
    <<"s","e","l","e","c">>
Tok_INSRT ==
    <<"I","N","S","R","T">>
Tok_UPDTE ==
    <<"U","P","D","T","E">>
Tok_DELET ==
    <<"D","E","L","E","T">>
Tok_FORM ==
    <<"F","O","R","M">>
Tok_WHER ==
    <<"W","H","E","R">>
Tok_FRMO ==
    <<"F","R","M","O">>
Tok_FRM ==
    <<"F","R","M">>
Tok_FROM ==
    <<"F","R","O","M">>
Tok_xyz ==
    <<"x","y","z">>
Tok_Semicolon ==
    <<";">>

DiagTokens ==
    {Tok_SELEC, Tok_selec, Tok_INSRT, Tok_UPDTE, Tok_DELET, Tok_FORM, Tok_WHER, Tok_FRMO, Tok_FRM, Tok_FROM, Tok_xyz, Tok_Semicolon}

\* pieces of raw front-end messages
\* "SELECT * "
M_SelectStar ==
    <<"S","E","L","E","C","T"," ","*"," ">>
\* ";'"
M_SemicolonQuote ==
    <<";","'">>
\* "' expecting {FROM, ','}"
M_ExpectingFromComma ==
    <<"'"," ","e","x","p","e","c","t","i","n","g"," ","{","F","R","O","M",","," ","'",",","'",
      "}">>
\* "' expecting ';'"
M_ExpectingSemicolon ==
    <<"'"," ","e","x","p","e","c","t","i","n","g"," ","'",";","'">>
\* "' expecting {<EOF>, ';'}"
M_ExpectingEOF ==
    <<"'"," ","e","x","p","e","c","t","i","n","g"," ","{","<","E","O","F",">",","," ","'",";",
      "'","}">>
\* "Extraneous input '"
M_ExtraneousCapital ==
    <<"E","x","t","r","a","n","e","o","u","s"," ","i","n","p","u","t"," ","'">>
\* "missing 'FROM' at '"
M_MissingFromAt ==
    <<"m","i","s","s","i","n","g"," ","'","F","R","O","M","'"," ","a","t"," ","'">>
\* "token recognition error at: '@'"
M_TokenRecognitionAt ==
    <<"t","o","k","e","n"," ","r","e","c","o","g","n","i","t","i","o","n"," ","e","r","r","o",
      "r"," ","a","t",":"," ","'","@","'">>
\* "rule selectStatement failed predicate"
M_RuleFailed ==
    <<"r","u","l","e"," ","s","e","l","e","c","t","S","t","a","t","e","m","e","n","t"," ","f",
      "a","i","l","e","d"," ","p","r","e","d","i","c","a","t","e">>
\* "unexpected end of input"
M_Other ==
    <<"u","n","e","x","p","e","c","t","e","d"," ","e","n","d"," ","o","f"," ","i","n","p","u",
      "t">>

\* the raw messages about token t
MessagesAbout(t) ==
    { T_NoViableAt \o t \o T_Quote,
      T_NoViableAt \o M_SelectStar \o t \o T_Quote,
      T_NoViableAt \o M_SelectStar \o t \o M_SemicolonQuote,
      T_MismatchedInput \o t \o M_ExpectingFromComma,
      T_MismatchedInput \o t \o M_ExpectingSemicolon,
      T_MismatchedInput \o t \o T_Quote,
      T_ExtraneousInputQ \o t \o M_ExpectingEOF,
      M_ExtraneousCapital \o t \o T_Expecting,
      M_MissingFromAt \o t \o T_Quote }

RawMessages ==
    UNION {MessagesAbout(t) : t \in DiagTokens}
        \cup {T_MissingSemicolon, M_TokenRecognitionAt, M_RuleFailed, M_Other, <<>>}

\* "SELECT * FORM users"
Q_Form ==
    <<"S","E","L","E","C","T"," ","*"," ","F","O","R","M"," ","u","s","e","r","s">>
\* "SELECT * FROM users WHER id = 1"
Q_Wher ==
    <<"S","E","L","E","C","T"," ","*"," ","F","R","O","M"," ","u","s","e","r","s"," ","W","H",
      "E","R"," ","i","d"," ","="," ","1">>
\* "SELECT * FROM users"
Q_Plain ==
    <<"S","E","L","E","C","T"," ","*"," ","F","R","O","M"," ","u","s","e","r","s">>
\* "select * form users"
Q_FormLower ==
    <<"s","e","l","e","c","t"," ","*"," ","f","o","r","m"," ","u","s","e","r","s">>
\* "SELECT * FROM platform"
Q_Platform ==
    <<"S","E","L","E","C","T"," ","*"," ","F","R","O","M"," ","p","l","a","t","f","o","r","m">>
\* "SELECT * FORM users WHER id = 1"
Q_FormWher ==
    <<"S","E","L","E","C","T"," ","*"," ","F","O","R","M"," ","u","s","e","r","s"," ","W","H",
      "E","R"," ","i","d"," ","="," ","1">>
\* "SELECT * FRMO users"
Q_Frmo ==
    <<"S","E","L","E","C","T"," ","*"," ","F","R","M","O"," ","u","s","e","r","s">>

Queries == {Q_Form, Q_Wher, Q_Plain, Q_FormLower, Q_Platform, Q_FormWher, Q_Frmo}

InitDiag ==
    /\ pc = "raw"
    /\ SchemaIdle /\ AnalyzeIdle /\ CallIdle
    /\ rawMessage \in RawMessages
    /\ query \in Queries
    /\ transform = IdleTransform

DoTransformError ==
    /\ pc = "raw"
    /\ transform' = TransformError(rawMessage, query)
    /\ pc' = "transformed"
    /\ UNCHANGED <<tbl, calls, opts, parsed, result, rawMessage, query, given, returned>>

NextDiag == DoTransformError

SpecDiag == InitDiag /\ [][NextDiag]_vars

-----------------------------------------------------------------------------
(* Properties of TransformError                                            *)

Transformed == pc = "transformed"

\* pattern i of the table matches the message and, if it has a query regex, the query
Applies(i) ==
    /\ FindStringSubmatch(errorPatterns[i].MessagePattern, rawMessage) # <<>>
    /\ \/ errorPatterns[i].QueryPattern.nil
       \/ FindStringSubmatch(errorPatterns[i].QueryPattern, query) # <<>>

Applicable == {i \in DOMAIN errorPatterns : Applies(i)}

TypoSpecific ==
    {"typo-form", "typo-wher", "typo-select", "typo-insert", "typo-update", "typo-delete"}

Generic ==
    {"no-viable-alternative", "mismatched-input-expecting", "mismatched-input-single",
     "extraneous-input", "missing-token", "missing-semicolon", "token-recognition",
     "failed-predicate"}

\* C9: the result names the earliest pattern in table order whose message regex matches
\* and whose query regex, if any, matches too; unless the keyword-typo pass overrides them,
\* the friendly message and suggestion are that pattern's expanded templates; with no
\* matching pattern the raw message is returned with no suggestion. Every typo-specific
\* pattern precedes every generic one, so when a typo-specific pattern matches the result
\* names a typo-specific pattern even if a generic pattern matches as well.
C9_FirstMatchWins ==
    Transformed
    => /\ \A i, j \in DOMAIN errorPatterns :
              (errorPatterns[i].Name \in TypoSpecific /\ errorPatterns[j].Name \in Generic)
                  => i < j
       /\ Applicable = {} => transform = TransformResult(rawMessage, <<>>, "")
       /\ Applicable # {}
              => LET first   == errorPatterns[MinOf(Applicable)]
                     matches == FindStringSubmatch(first.MessagePattern, rawMessage)
                 IN  /\ transform.PatternName = first.Name
                     /\ findTypoSuggestion(rawMessage, query) = <<>>
                            => /\ transform.FriendlyMessage
                                      = (IF first.FriendlyTemplate = <<>> THEN rawMessage
                                         ELSE expandTemplate(first.FriendlyTemplate, matches))
                               /\ transform.Suggestion
                                      = expandTemplate(first.SuggestionTemplate, matches)
       /\ (\E i \in Applicable : errorPatterns[i].Name \in TypoSpecific)
              => transform.PatternName \in TypoSpecific

\* C9 witness: a typo-specific pattern and a generic pattern both match, and the result
\* is the typo-specific pattern's
C9_Witness ==
    /\ Transformed
    /\ rawMessage = T_NoViableAt \o M_SelectStar \o Tok_xyz \o T_Quote
    /\ query = Q_FormWher
    /\ {errorPatterns[i].Name : i \in Applicable}
           = {"typo-form", "typo-wher", "no-viable-alternative"}
    /\ transform = TransformResult(T_UnknownKeywordFORM, T_DidYouMeanFROM, "typo-form")

\* the offending token of the raw message: X of "mismatched input 'X'" or of
\* "extraneous input 'X'", else the last word, trailing punctuation trimmed, of
\* "no viable alternative at input '...'"; <<>> when the message has none
OffendingToken ==
    LET mismatched == FindStringSubmatch(tokenPatterns[1], rawMessage)
        extraneous == FindStringSubmatch(tokenPatterns[2], rawMessage)
        noViable   == FindStringSubmatch(noViableRe, rawMessage)
    IN  IF mismatched # <<>> THEN mismatched[2]
        ELSE IF extraneous # <<>> THEN extraneous[2]
        ELSE IF noViable # <<>> /\ Fields(noViable[2]) # <<>>
        THEN TrimRight(Fields(noViable[2])[Len(Fields(noViable[2]))], TrailingPunctuation)
        ELSE <<>>

\* the keywords longer than 2 characters within edit distance 2 of the token
NearKeywords(token) ==
    {kw \in Range(cqlKeywords) :
        Len(kw) > 2 /\ levenshteinDistance(ToUpper(token), kw) <= 2}

\* C10 as claimed: once a pattern has matched, if the offending token is not an exact
\* keyword and is within edit distance 2 of a keyword K longer than 2 characters, the
\* suggestion is "Did you mean 'K'?" and the friendly message is
\* "Unknown keyword '<token>'".
C10_TypoOverride ==
    ( /\ Transformed
      /\ transform.PatternName # ""
      /\ OffendingToken # <<>>
      /\ ToUpper(OffendingToken) \notin Range(cqlKeywords)
      /\ NearKeywords(OffendingToken) # {} )
    => /\ \E kw \in NearKeywords(OffendingToken) :
              transform.Suggestion = DidYouMeanKeyword(kw)
       /\ transform.FriendlyMessage = T_UnknownKeyword \o OffendingToken \o T_Quote

-----------------------------------------------------------------------------
(* Keyword suggestion specification: SuggestKeyword applied to a keyword   *)
(* changed by one character.                                               *)

\* the characters an edit inserts or substitutes
EditChars == {"E", "Y", "O", "x", " "}

InsertAt(k, i, c) == SubSeq(k, 1, i - 1) \o <<c>> \o SubSeq(k, i, Len(k))
DeleteAt(k, i) == SubSeq(k, 1, i - 1) \o SubSeq(k, i + 1, Len(k))
SubstituteAt(k, i, c) == [k EXCEPT ![i] = c]

\* the strings one insertion, deletion or substitution away from k
SingleEdits(k) ==
    {InsertAt(k, i, c) : i \in 1..(Len(k) + 1), c \in EditChars}
        \cup {DeleteAt(k, i) : i \in 1..Len(k)}
        \cup UNION {{SubstituteAt(k, i, c) : c \in EditChars \ {k[i]}} : i \in 1..Len(k)}

\* the keywords of at least four characters
LongKeywords == {kw \in Range(cqlKeywords) : Len(kw) >= 4}

InitSuggest ==
    /\ pc = "typed"
    /\ SchemaIdle /\ AnalyzeIdle /\ DiagIdle
    /\ \E k \in LongKeywords : \E t \in SingleEdits(k) : given = [k |-> k, t |-> t]
    /\ returned = <<>>

DoSuggestKeyword ==
    /\ pc = "typed"
    /\ returned' = SuggestKeyword(given.t)
    /\ pc' = "suggested"
    /\ UNCHANGED <<tbl, calls, opts, parsed, result, rawMessage, query, transform, given>>

NextSuggest == DoSuggestKeyword

SpecSuggest == InitSuggest /\ [][NextSuggest]_vars

-----------------------------------------------------------------------------
(* Properties of SuggestKeyword                                            *)

Suggested == pc = "suggested"

\* a and b are exactly one insertion, deletion or substitution apart
OneEditApart(a, b) ==
    \/ Len(a) = Len(b) /\ Cardinality({i \in 1..Len(a) : a[i] # b[i]}) = 1
    \/ Len(a) = Len(b) + 1 /\ \E i \in 1..Len(a) : DeleteAt(a, i) = b
    \/ Len(b) = Len(a) + 1 /\ \E i \in 1..Len(b) : DeleteAt(b, i) = a

\* the edited keyword as SuggestKeyword compares it: trimmed and upper-cased
Typed == ToUpper(TrimSpace(given.t))

\* C11 as claimed: for every keyword k of at least four characters and every string t one
\* insertion, deletion or substitution away from k, SuggestKeyword(t) returns k.
C11_SingleEditSuggestsKeyword ==
    Suggested => returned = given.k

\* C11 as amended: for such k and t, if t (trimmed, upper-cased) is shorter than four
\* characters or is itself a keyword there is no suggestion; otherwise SuggestKeyword(t)
\* returns the first keyword of the table that is longer than two characters and one edit
\* away from t, which is k unless such a keyword precedes k in the table.
C11_SingleEditSuggestsNearest ==
    Suggested
    => IF Len(Typed) < 4 \/ Typed \in Range(cqlKeywords)
       THEN returned = <<>>
       ELSE LET near == {i \in DOMAIN cqlKeywords :
                            Len(cqlKeywords[i]) > 2 /\ OneEditApart(Typed, cqlKeywords[i])}
            IN  /\ \E i \in near : cqlKeywords[i] = given.k
                /\ returned = cqlKeywords[MinOf(near)]
                /\ (\A i \in near : cqlKeywords[i] = given.k) => returned = given.k

\* C11 witness: TYME, one substitution away from TIME, has been looked up and TYPE, which
\* is as near and earlier in the table, was suggested
C11_Witness ==
    /\ Suggested
    /\ given.k = <<"T","I","M","E">>
    /\ given.t = <<"T","Y","M","E">>
    /\ returned = <<"T","Y","P","E">>

-----------------------------------------------------------------------------
(* pkg/complete: context detection.                                        *)

\* strings.HasSuffix
HasSuffix(s, suffix) ==
    Len(suffix) <= Len(s) /\ SubSeq(s, Len(s) - Len(suffix) + 1, Len(s)) = suffix

\* strings.TrimSuffix
TrimSuffix(s, suffix) ==
    IF HasSuffix(s, suffix) THEN SubSeq(s, 1, Len(s) - Len(suffix)) ELSE s

\* the Go slice s[from:to], with Go's indices
Slice(s, from, to) == SubSeq(s, from + 1, to)

\* the Go indices at which substr occurs in s
Occurrences(s, substr) ==
    {i \in 0..(Len(s) - Len(substr)) : Slice(s, i, i + Len(substr)) = substr}

\* strings.Index
Index(s, substr) ==
    IF Occurrences(s, substr) = {} THEN -1 ELSE MinOf(Occurrences(s, substr))

\* strings.LastIndex
LastIndex(s, substr) ==
    IF Occurrences(s, substr) = {} THEN -1 ELSE MaxOf(Occurrences(s, substr))

\* strings.Contains
Contains(s, substr) == Occurrences(s, substr) # {}

\* the characters at which findCurrentToken stops besides white space
TokenBreaks == {",", "(", ")", ".", ";"}

\* findCurrentToken: where the token under the cursor starts, and the token so far
findCurrentToken(textBefore) ==
    IF textBefore = <<>> THEN [TokenStart |-> 0, Prefix |-> <<>>]
    ELSE IF textBefore[Len(textBefore)] \in Whitespace
    THEN [TokenStart |-> Len(textBefore), Prefix |-> <<>>]
    ELSE LET stops == {i \in 1..Len(textBefore) :
                           textBefore[i] \in Whitespace \cup TokenBreaks}
             start == IF stops = {} THEN 0 ELSE MaxOf(stops)
         IN  [TokenStart |-> start, Prefix |-> Slice(textBefore, start, Len(textBefore))]

\* the loop of normalizeForAnalysis: every run of white space becomes one space
RECURSIVE collapseSpaces(_, _)
collapseSpaces(text, prevSpace) ==
    IF text = <<>> THEN <<>>
    ELSE IF text[1] \in Whitespace
    THEN (IF prevSpace THEN <<>> ELSE <<" ">>) \o collapseSpaces(Tail(text), TRUE)
    ELSE <<text[1]>> \o collapseSpaces(Tail(text), FALSE)

\* normalizeForAnalysis
normalizeForAnalysis(text) == TrimSpace(collapseSpaces(ToUpper(text), FALSE))

\* hasLimitWithValue
hasLimitWithValue(normalized) ==
    LET limitIdx == LastIndex(normalized, <<" ","L","I","M","I","T"," ">>)
        afterLimit == TrimSpace(Slice(normalized, limitIdx + 7, Len(normalized)))
        parts == Fields(afterLimit)
    IN  /\ limitIdx # -1
        /\ afterLimit # <<>>
        /\ Len(parts) > 0
        /\ \/ parts[1] = <<"?">>
           \/ \A i \in 1..Len(parts[1]) : parts[1][i] \in Range(Digits)

ContextUnknown == "unknown"
ContextStatementStart == "statement_start"
ContextAfterSelect == "after_select"
ContextAfterFrom == "after_from"
ContextAfterWhere == "after_where"
ContextAfterAnd == "after_and"
ContextAfterOperator == "after_operator"
ContextAfterInsertInto == "after_insert_into"
ContextAfterUpdate == "after_update"
ContextAfterDot == "after_dot"
ContextAfterLimit == "after_limit"
ContextAfterLimitValue == "after_limit_value"

\* a context detectContextType decides after its UPDATE case
ContextLater == "later"

\* detectContextType, through its UPDATE case; the cases after it are one value
detectContextType(normalizedText, prefix) ==
    LET normalized == TrimSpace(TrimSuffix(normalizedText, ToUpper(prefix)))
    IN  IF normalized = <<>> THEN ContextStatementStart
        ELSE IF HasSuffix(normalized, <<".">>) THEN ContextAfterDot
        ELSE IF normalized = <<"L","I","M","I","T">> \/ HasSuffix(normalized, <<" ","L","I","M","I","T">>)
        THEN ContextAfterLimit
        ELSE IF hasLimitWithValue(normalized) THEN ContextAfterLimitValue
        ELSE IF \/ normalized = <<"S","E","L","E","C","T">>
                \/ HasSuffix(normalized, <<" ","S","E","L","E","C","T">>)
                \/ HasSuffix(normalized, <<"(","S","E","L","E","C","T">>)
        THEN ContextAfterSelect
        ELSE IF normalized = <<"F","R","O","M">> \/ HasSuffix(normalized, <<" ","F","R","O","M">>)
        THEN ContextAfterFrom
        ELSE IF normalized = <<"W","H","E","R","E">> \/ HasSuffix(normalized, <<" ","W","H","E","R","E">>)
        THEN ContextAfterWhere
        ELSE IF HasSuffix(normalized, <<" ","A","N","D">>) \/ HasSuffix(normalized, <<" ","O","R">>)
        THEN ContextAfterAnd
        ELSE IF \/ HasSuffix(normalized, <<" ","=">>) \/ HasSuffix(normalized, <<" ","<">>)
                \/ HasSuffix(normalized, <<" ",">">>) \/ HasSuffix(normalized, <<" ","<","=">>)
                \/ HasSuffix(normalized, <<" ",">","=">>) \/ HasSuffix(normalized, <<" ","!","=">>)
                \/ HasSuffix(normalized, <<" ","I","N">>)
        THEN ContextAfterOperator
        ELSE IF /\ HasSuffix(normalized, <<"I","N","S","E","R","T"," ","I","N","T","O">>) \/ HasSuffix(normalized, <<" ","I","N","T","O">>)
                /\ Contains(normalized, <<"I","N","S","E","R","T">>)
        THEN ContextAfterInsertInto
        ELSE IF normalized = <<"U","P","D","A","T","E">> \/ HasSuffix(normalized, <<" ","U","P","D","A","T","E">>)
        THEN ContextAfterUpdate
        ELSE ContextLater

\* parseTableRef: "keyspace.table" or just "table", in lower case
parseTableRef(tableRef) ==
    LET ref == TrimLeft(TrimRight(tableRef, {"\""}), {"\""})
        idx == Index(ref, <<".">>)
    IN  IF idx # -1
        THEN [Keyspace |-> ToLower(Slice(ref, 0, idx)),
              Table |-> ToLower(Slice(ref, idx + 1, Len(ref)))]
        ELSE [Keyspace |-> <<>>, Table |-> ToLower(ref)]

\* the first word of normalized after position from, without trailing punctuation
tableRefAfter(normalized, from) ==
    TrimRight(Fields(Slice(normalized, from, Len(normalized)))[1], {",", ";", "(", ")"})

\* whether a word follows position from of normalized
wordAfter(normalized, idx, from) ==
    idx # -1 /\ Len(Fields(Slice(normalized, from, Len(normalized)))) > 0

\* extractTableContext: the keyspace and table the query names after FROM, UPDATE or INTO
extractTableContext(normalized) ==
    LET fromIdx == LastIndex(normalized, <<"F","R","O","M"," ">>)
        updateIdx == Index(normalized, <<"U","P","D","A","T","E"," ">>)
        intoIdx == Index(normalized, <<"I","N","T","O"," ">>)
    IN  IF wordAfter(normalized, fromIdx, fromIdx + 5)
        THEN parseTableRef(tableRefAfter(normalized, fromIdx + 5))
        ELSE IF wordAfter(normalized, updateIdx, updateIdx + 7)
        THEN parseTableRef(tableRefAfter(normalized, updateIdx + 7))
        ELSE IF wordAfter(normalized, intoIdx, intoIdx + 5)
        THEN parseTableRef(tableRefAfter(normalized, intoIdx + 5))
        ELSE [Keyspace |-> <<>>, Table |-> <<>>]

\* DetectContext, without the column of an operator context
DetectContext(queryText, position) ==
    LET pos == IF position < 0 THEN 0
               ELSE IF position > Len(queryText) THEN Len(queryText) ELSE position
        textBefore == Slice(queryText, 0, pos)
        token == findCurrentToken(textBefore)
        tableContext == extractTableContext(normalizeForAnalysis(queryText))
    IN  [Type |-> detectContextType(normalizeForAnalysis(textBefore), token.Prefix),
         Prefix |-> token.Prefix,
         TokenStart |-> token.TokenStart,
         TokenEnd |-> pos,
         Keyspace |-> tableContext.Keyspace,
         Table |-> tableContext.Table]

-----------------------------------------------------------------------------
(* pkg/complete: completion groups and their registry.                     *)

GroupKindKeyspace == "keyspace"
GroupKindCategory == "category"
GroupKindKeyType == "key_type"
GroupKindSource == "source"

GroupPrefixKeyspace == <<"k","s",":">>
GroupPrefixSource == <<"s","r","c",":">>

GroupKeyPartition == <<"k","e","y",":","p","a","r","t","i","t","i","o","n">>
GroupKeyClustering == <<"k","e","y",":","c","l","u","s","t","e","r","i","n","g">>
GroupKeyRegular == <<"k","e","y",":","r","e","g","u","l","a","r">>
GroupKeyStatic == <<"k","e","y",":","s","t","a","t","i","c">>

GroupCatCollection == <<"c","a","t",":","c","o","l","l","e","c","t","i","o","n">>
GroupCatOther == <<"c","a","t",":","o","t","h","e","r">>
GroupCatCollType == <<"c","a","t",":","c","o","l","l","e","c","t","i","o","n">>
GroupCatOtherTypes == <<"c","a","t",":","o","t","h","e","r">>
GroupCatKeyspaces == <<"c","a","t",":","k","e","y","s","p","a","c","e","s">>
GroupCatTables == <<"c","a","t",":","t","a","b","l","e","s">>
GroupCatColumns == <<"c","a","t",":","c","o","l","u","m","n","s">>

\* a CompletionGroup
CompletionGroup(id, kind, label, icon, priority) ==
    [ID |-> id, Kind |-> kind, Label |-> label, Icon |-> icon, Priority |-> priority]

\* KeyTypeGroups
KeyTypeGroups ==
    (GroupKeyPartition :> CompletionGroup(GroupKeyPartition, GroupKindKeyType, "Partition Key", "star", 1))
    @@ (GroupKeyClustering :> CompletionGroup(GroupKeyClustering, GroupKindKeyType, "Clustering Key", "down", 2))
    @@ (GroupKeyStatic :> CompletionGroup(GroupKeyStatic, GroupKindKeyType, "Static", "diamond", 3))
    @@ (GroupKeyRegular :> CompletionGroup(GroupKeyRegular, GroupKindKeyType, "Regular", "", 4))

\* the entries of FunctionCategoryGroups for the collection and the other functions
FunctionCategoryGroups ==
    (GroupCatCollection :> CompletionGroup(GroupCatCollection, GroupKindCategory, "Collection", "[]", 5))
    @@ (GroupCatOther :> CompletionGroup(GroupCatOther, GroupKindCategory, "Other", "", 99))

\* the entries of TypeCategoryGroups for the collection and the other types
TypeCategoryGroups ==
    (GroupCatCollType :> CompletionGroup(GroupCatCollType, GroupKindCategory, "Collection", "[]", 4))
    @@ (GroupCatOtherTypes :> CompletionGroup(GroupCatOtherTypes, GroupKindCategory, "Other", "", 99))

\* SchemaCategoryGroups
SchemaCategoryGroups ==
    (GroupCatKeyspaces :> CompletionGroup(GroupCatKeyspaces, GroupKindCategory, "Keyspaces", "hexagon", -2))
    @@ (GroupCatTables :> CompletionGroup(GroupCatTables, GroupKindCategory, "Tables", "T", -1))
    @@ (GroupCatColumns :> CompletionGroup(GroupCatColumns, GroupKindCategory, "Columns", "C", 0))

\* the entries of FunctionToCategory for ttl and token
FunctionToCategory == ("ttl" :> GroupCatCollection) @@ ("token" :> GroupCatOther)

\* the entries of TypeToCategory for list and uuid
TypeToCategory == ("list" :> GroupCatCollType) @@ ("uuid" :> GroupCatOtherTypes)

KeyspaceGroupID(keyspace) == GroupPrefixKeyspace \o keyspace
SourceGroupID(table) == GroupPrefixSource \o table

NewKeyspaceGroup(keyspace, priority) ==
    CompletionGroup(KeyspaceGroupID(keyspace), GroupKindKeyspace, keyspace, "hexagon", priority)

NewSourceGroup(table, priority) ==
    CompletionGroup(SourceGroupID(table), GroupKindSource, table, "T", priority)

\* NewGroupRegistry: the map of groups by ID, empty
NewGroupRegistry == EmptyMap

\* GroupRegistry.Register as a map write that does not look for the ID first
RegisterOverwriting(r, group) == MapPut(r, group.ID, group)

\* GroupRegistry.Register
Register(r, group) == IF group.ID \in DOMAIN r THEN r ELSE MapPut(r, group.ID, group)

\* GroupRegistry.RegisterKeyspace: the registry afterwards (the ID returned is KeyspaceGroupID)
RegisterKeyspace(r, keyspace, priority) == Register(r, NewKeyspaceGroup(keyspace, priority))

\* GroupRegistry.RegisterSource: the registry afterwards (the ID returned is SourceGroupID)
RegisterSource(r, table, priority) == Register(r, NewSourceGroup(table, priority))

\* the ID GroupRegistry.RegisterKeyType returns
KeyTypeID(keyType) ==
    CASE keyType = "partition" -> GroupKeyPartition
      [] keyType = "clustering" -> GroupKeyClustering
      [] keyType = "static" -> GroupKeyStatic
      [] OTHER -> GroupKeyRegular

\* GroupRegistry.RegisterKeyType: the registry afterwards
RegisterKeyType(r, keyType) ==
    IF KeyTypeID(keyType) \in DOMAIN KeyTypeGroups
    THEN Register(r, KeyTypeGroups[KeyTypeID(keyType)])
    ELSE r

\* the ID GroupRegistry.RegisterFunctionCategory returns
FunctionCategoryID(funcName) ==
    IF funcName \in DOMAIN FunctionToCategory THEN FunctionToCategory[funcName]
    ELSE GroupCatOther

\* GroupRegistry.RegisterFunctionCategory: the registry afterwards
RegisterFunctionCategory(r, funcName) ==
    IF FunctionCategoryID(funcName) \in DOMAIN FunctionCategoryGroups
    THEN Register(r, FunctionCategoryGroups[FunctionCategoryID(funcName)])
    ELSE r

\* the ID GroupRegistry.RegisterTypeCategory returns
TypeCategoryID(typeName) ==
    IF typeName \in DOMAIN TypeToCategory THEN TypeToCategory[typeName]
    ELSE GroupCatOtherTypes

\* GroupRegistry.RegisterTypeCategory: the registry afterwards
RegisterTypeCategory(r, typeName) ==
    IF TypeCategoryID(typeName) \in DOMAIN TypeCategoryGroups
    THEN Register(r, TypeCategoryGroups[TypeCategoryID(typeName)])
    ELSE r

\* GroupRegistry.RegisterSchemaCategory: the registry afterwards
RegisterSchemaCategory(r, categoryID) ==
    IF categoryID \in DOMAIN SchemaCategoryGroups
    THEN Register(r, SchemaCategoryGroups[categoryID])
    ELSE r

\* the inner loop of GroupRegistry.Groups: result[j] moves to i when its priority is less
RECURSIVE GroupsInner(_, _, _)
GroupsInner(groups, i, j) ==
    IF j > Len(groups) THEN groups
    ELSE IF groups[j].Priority < groups[i].Priority
    THEN GroupsInner([groups EXCEPT ![i] = groups[j], ![j] = groups[i]], i, j + 1)
    ELSE GroupsInner(groups, i, j + 1)

\* the outer loop of GroupRegistry.Groups
RECURSIVE GroupsOuter(_, _)
GroupsOuter(groups, i) ==
    IF i > Len(groups) - 1 THEN groups
    ELSE GroupsOuter(GroupsInner(groups, i, i + 1), i + 1)

\* GroupRegistry.Groups when the range over the map visits the IDs in this order
GroupsInOrder(r, order) == GroupsOuter([i \in DOMAIN order |-> r[order[i]]], 1)

\* GroupRegistry.Groups: the slices it may return
Groups(r) == {GroupsInOrder(r, order) : order \in MapOrders(DOMAIN r)}

-----------------------------------------------------------------------------
(* pkg/complete: the grammar-validity filter.                              *)

KindKeyword == "keyword"
KindTable == "table"
KindView == "view"
KindKeyspace == "keyspace"

\* a CompletionItem
CompletionItem(label, kind, detail, sortPriority, filterText, groups) ==
    [Label |-> label, Kind |-> kind, Detail |-> detail, SortPriority |-> sortPriority,
     FilterText |-> filterText, Groups |-> groups]

\* the identifier IsTokenValidAtPosition appends after the candidate
Placeholder == <<" ","_","_","p","l","a","c","e","h","o","l","d","e","r","_","_">>

\* the text IsTokenValidAtPosition hands to the parser
TestQuery(queryText, position, token) ==
    LET pos == IF position > Len(queryText) THEN Len(queryText) ELSE position
    IN  Slice(queryText, 0, pos) \o token \o Placeholder

\* the line the parser reports for the character at Go offset off of text: lines count from 1
LineOf(text, off) == 1 + Cardinality({i \in 1..off : text[i] = "\n"})

\* the column the parser reports for the character at Go offset off: characters since the
\* start of its line, from 0
ColumnOf(text, off) ==
    LET breaks == {i \in 1..off : text[i] = "\n"}
    IN  IF breaks = {} THEN off ELSE off - MaxOf(breaks)

\* validationErrorListener.SyntaxError: whether this report sets hadEarlyError
earlyError(tokenEndPosition, line, column) == line = 1 /\ column <= tokenEndPosition

\* IsTokenValidAtPosition, when the parser reports syntax errors at these offsets of the
\* text it is handed
IsTokenValidAtPosition(queryText, position, token, errorOffsets) ==
    LET pos == IF position > Len(queryText) THEN Len(queryText) ELSE position
        testQuery == TestQuery(queryText, position, token)
    IN  ~\E off \in errorOffsets :
            earlyError(pos + Len(token), LineOf(testQuery, off), ColumnOf(testQuery, off))

\* the text filterWithANTLR checks for an item: the first word of its label
checkTextOf(item) ==
    LET spaceIdx == Index(item.Label, <<" ">>)
    IN  IF spaceIdx > 0 THEN Slice(item.Label, 0, spaceIdx) ELSE item.Label

\* the position at which filterWithANTLR inserts the candidates
insertPositionOf(position, prefix) ==
    IF position - Len(prefix) < 0 THEN 0 ELSE position - Len(prefix)

\* the text filterWithANTLR inserts the candidates after
truncatedQueryOf(queryText, position, prefix) ==
    IF insertPositionOf(position, prefix) < Len(queryText)
    THEN Slice(queryText, 0, insertPositionOf(position, prefix))
    ELSE queryText

\* filterWithANTLR, when parsing the text with candidate c inserted reports syntax errors at
\* the offsets errors[c]
filterWithANTLR(queryText, position, items, prefix, errors) ==
    LET truncatedQuery == truncatedQueryOf(queryText, position, prefix)
        keep(item) ==
            \/ item.Kind # KindKeyword
            \/ IsTokenValidAtPosition(truncatedQuery, Len(truncatedQuery),
                                      checkTextOf(item), errors[checkTextOf(item)])
    IN  SelectSeq(items, keep)

\* longest list of syntax errors one parse reports
MaxParseErrors == 1

KeywordItem(label) == CompletionItem(label, KindKeyword, <<>>, 1, <<>>, <<>>)

Lbl_FROM == <<"F","R","O","M">>
Lbl_ORDER_BY == <<"O","R","D","E","R"," ","B","Y">>
Lbl_WHERE == <<"W","H","E","R","E">>
Lbl_users == <<"u","s","e","r","s">>

\* candidate lists: keywords of one and of two words, and a table, which bypasses the filter
FilterItems ==
    {<<KeywordItem(Lbl_FROM)>>, <<KeywordItem(Lbl_WHERE)>>,
     <<KeywordItem(Lbl_ORDER_BY), CompletionItem(Lbl_users, KindTable, <<>>, 5, <<>>, <<>>)>>}

FilterQuery_OneLine == <<"S","E","L","E","C","T"," ","*"," ","F","R","O","M"," ","t"," ","o">>
FilterQuery_TwoLines == <<"S","E","L","E","C","T"," ","*","\n","F","R","O","M"," ","t"," ","o">>

FilterQuery_Limit == <<"S","E","L","E","C","T"," ","*"," ","F","R","O","M"," ","u","s","e","r","s"," ","L","I","M","I","T"," ","1","0"," ">>
FilterQuery_LimitTwoLines == <<"S","E","L","E","C","T"," ","*"," ","F","R","O","M"," ","u","s","e","r","s","\n","L","I","M","I","T"," ","1","0"," ">>

\* queries of one and of two lines, with the cursor after a prefix or after white space
FilterRequests ==
    {[query |-> q, position |-> p] : q \in {FilterQuery_OneLine, FilterQuery_TwoLines},
                                      p \in {9, 16, 17}}
    \cup {[query |-> q, position |-> 29] : q \in {FilterQuery_Limit, FilterQuery_LimitTwoLines}}

\* the subsets of S of at most k elements
RECURSIVE SetsUpTo(_, _)
SetsUpTo(S, k) ==
    IF k = 0 THEN {{}}
    ELSE LET smaller == SetsUpTo(S, k - 1)
         IN  smaller \cup {s \cup {x} : s \in smaller, x \in S}

\* the offsets at which a parse of text may report its errors
ErrorReports(text) == SetsUpTo(0..Len(text), MaxParseErrors)

\* the texts filterWithANTLR has parsed for a request: one for every keyword candidate
ParsedCandidates(g) ==
    {checkTextOf(g.items[i]) : i \in {j \in DOMAIN g.items : g.items[j].Kind = KindKeyword}}

\* the text parsed for candidate c of the request
ParsedText(g, c) ==
    TestQuery(truncatedQueryOf(g.query, g.position, g.prefix), g.position, c)

InitFilter ==
    /\ pc = "candidates"
    /\ SchemaIdle /\ AnalyzeIdle /\ DiagIdle
    /\ \E r \in FilterRequests, items \in FilterItems :
           given = [query |-> r.query, position |-> r.position,
                    prefix |-> findCurrentToken(Slice(r.query, 0, r.position)).Prefix,
                    items |-> items, errors |-> <<>>]
    /\ returned = <<>>

\* the parser reports its syntax errors for every candidate, and the filter runs
DoFilterWithANTLR ==
    /\ pc = "candidates"
    /\ \E errors \in [ParsedCandidates(given) ->
                        UNION {ErrorReports(ParsedText(given, c)) :
                                   c \in ParsedCandidates(given)}] :
           /\ \A c \in DOMAIN errors : errors[c] \in ErrorReports(ParsedText(given, c))
           /\ given' = [given EXCEPT !.errors = errors]
           /\ returned' = filterWithANTLR(given.query, given.position, given.items,
                                          given.prefix, errors)
    /\ pc' = "filtered"
    /\ UNCHANGED <<tbl, calls, opts, parsed, result, rawMessage, query, transform>>

NextFilter == DoFilterWithANTLR
SpecFilter == InitFilter /\ [][NextFilter]_vars

Filtered == pc = "filtered"

\* the offset just after candidate c, inserted where the prefix starts
TokenEnd(c) ==
    Len(truncatedQueryOf(given.query, given.position, given.prefix)) + Len(c)

\* C13: with the grammar-validity filter, a keyword candidate is kept if and only if the
\* parse of the text up to the insertion point, the candidate and the placeholder reports
\* no syntax error at or before the end of the candidate, on whichever line the insertion
\* point lies.
C13_KeptIffNoEarlyError ==
    Filtered
    => \A i \in DOMAIN given.items :
           given.items[i].Kind = KindKeyword
           => LET c == checkTextOf(given.items[i])
              IN  (given.items[i] \in Range(returned))
                  <=> ~\E off \in given.errors[c] : off <= TokenEnd(c)

-----------------------------------------------------------------------------
(* pkg/complete: completions from the schema, and the completion request.  *)

\* a byte that is no valid UTF-8 encoding (0xFF), held as one element of a text
ByteFF == "\\xFF"
\* the Unicode replacement character U+FFFD (bytes EF BF BD), one element of a text
ReplacementRune == "\\uFFFD"

\* the characters of the texts compared, in the order of their bytes
ByteOrder ==
    <<" ", "\"", "(", ")", "*", ",", ".">> \o Digits \o <<":", ";", "<", "=", ">", "?">>
    \o UpperLetters \o <<"_">> \o LowerLetters \o <<ReplacementRune, ByteFF>>

\* the rank of a character among the bytes
ByteOf(c) == CHOOSE i \in DOMAIN ByteOrder : ByteOrder[i] = c

\* a < b on Go strings: the order of the bytes, a proper prefix first
RECURSIVE StringLess(_, _)
StringLess(a, b) ==
    IF b = <<>> THEN FALSE
    ELSE IF a = <<>> THEN TRUE
    ELSE IF a[1] # b[1] THEN ByteOf(a[1]) < ByteOf(b[1])
    ELSE StringLess(Tail(a), Tail(b))

\* Keyspace.MaterializedViewNames and Keyspace.GetMaterializedView: the views of the
\* keyspace's tables, table by table, in one of the orders the ranges over the maps may
\* produce, each with the base table one of the tables holding a view of that name
ViewPairs(ks) ==
    UNION {{<<t, v>> : v \in DOMAIN ks.Tables[t].MaterializedViews} : t \in DOMAIN ks.Tables}

TableByTable(o) ==
    \A i, j \in DOMAIN o :
        (i < j /\ o[i][1] = o[j][1]) => \A k \in i..j : o[k][1] = o[i][1]

MaterializedViews(ks) ==
    LET orders == {o \in MapOrders(ViewPairs(ks)) : TableByTable(o)}
        bases(v) == {t \in DOMAIN ks.Tables : v \in DOMAIN ks.Tables[t].MaterializedViews}
    IN  UNION {{[i \in DOMAIN o |->
                    [Name |-> o[i][2],
                     BaseTable |-> ks.Tables[b[i]].MaterializedViews[o[i][2]].BaseTable]] :
                b \in {b \in [DOMAIN o -> DOMAIN ks.Tables] :
                          \A i \in DOMAIN o : b[i] \in bases(o[i][2])}} :
               o \in orders}

\* one choice, per keyspace k of a schema, of an element of F(k)
PerKeyspace(s, F(_)) ==
    {f \in [DOMAIN s.Keyspaces -> UNION {F(k) : k \in DOMAIN s.Keyspaces}] :
        \A k \in DOMAIN s.Keyspaces : f[k] \in F(k)}

\* the orders in which the ranges over the maps of a schema run during one request: over
\* the keyspaces in getTableCompletions and again in getKeyspaceCompletions, and over the
\* tables and the views of every keyspace
IterationOrders(s) ==
    LET tablesOf(k) == TableNames(s.Keyspaces[k])
        viewsOf(k) == MaterializedViews(s.Keyspaces[k])
    IN  {[KeyspacesForTables |-> kt, KeyspacesForList |-> kl, Tables |-> t, Views |-> v] :
            kt \in KeyspaceNames(s), kl \in KeyspaceNames(s),
            t \in PerKeyspace(s, tablesOf), v \in PerKeyspace(s, viewsOf)}

\* getKeyspaceCompletions: the items and the registry afterwards
getKeyspaceCompletions(s, registry, ord) ==
    IF s.IsNil THEN [Items |-> <<>>, Registry |-> registry]
    ELSE [Items |-> [i \in DOMAIN ord.KeyspacesForList |->
                        CompletionItem(ord.KeyspacesForList[i], KindKeyspace, <<"K","e","y","s","p","a","c","e">>,
                                       10, <<>>, <<GroupCatKeyspaces>>)],
          Registry |-> RegisterSchemaCategory(registry, GroupCatKeyspaces)]

\* the detail of a table item without a keyspace prefix
tableDetail(t) ==
    IF Len(t.PartitionKey) > 0
    THEN <<"T","a","b","l","e"," ","(","P","K",":"," ">> \o Join(t.PartitionKey, <<","," ">>) \o <<")">>
    ELSE <<"T","a","b","l","e">>

\* the detail of a view item without a keyspace prefix
viewDetail(mv) ==
    IF mv.BaseTable # <<>> THEN <<"V","i","e","w"," ","o","n"," ">> \o mv.BaseTable ELSE <<"M","a","t","e","r","i","a","l","i","z","e","d"," ","V","i","e","w">>

\* getTableCompletions with an explicit keyspace: its tables, then its views
keyspaceTableItems(ks, ksGroupID, tables, views) ==
    [i \in DOMAIN tables |->
        CompletionItem(tables[i], KindTable, tableDetail(ks.Tables[tables[i]]), 5, <<>>,
                       <<ksGroupID>>)]
    \o [i \in DOMAIN views |->
        CompletionItem(views[i].Name, KindView, viewDetail(views[i]), 6, <<>>, <<ksGroupID>>)]

\* getTableCompletions without a keyspace, should no keyspace count as the default one
allTableItemsDotted(ks, ksName, isDefault, ksGroupID, tables, views) ==
    [i \in DOMAIN tables |->
        CompletionItem(ksName \o <<".">> \o tables[i], KindTable, <<"T","a","b","l","e"," ","i","n"," ">> \o ksName, 10,
                       tables[i], <<ksGroupID>>)]
    \o [i \in DOMAIN views |->
        CompletionItem(ksName \o <<".">> \o views[i].Name, KindView, <<"V","i","e","w"," ","i","n"," ">> \o ksName, 11,
                       views[i].Name, <<ksGroupID>>)]

\* getTableCompletions without a keyspace: the tables of one keyspace, then its views
allTableItems(ks, ksName, isDefault, ksGroupID, tables, views) ==
    [i \in DOMAIN tables |->
        IF isDefault
        THEN CompletionItem(tables[i], KindTable, tableDetail(ks.Tables[tables[i]]), 5,
                            tables[i], <<ksGroupID>>)
        ELSE CompletionItem(ksName \o <<".">> \o tables[i], KindTable, <<"T","a","b","l","e"," ","i","n"," ">> \o ksName,
                            10, tables[i], <<ksGroupID>>)]
    \o [i \in DOMAIN views |->
        IF isDefault
        THEN CompletionItem(views[i].Name, KindView, viewDetail(views[i]), 6, views[i].Name,
                            <<ksGroupID>>)
        ELSE CompletionItem(ksName \o <<".">> \o views[i].Name, KindView,
                            <<"V","i","e","w"," ","i","n"," ">> \o ksName, 11, views[i].Name, <<ksGroupID>>)]

\* the loop of getTableCompletions over the keyspaces, from the i-th on
RECURSIVE allKeyspacesLoop(_, _, _, _, _, _)
allKeyspacesLoop(s, defaultKs, registry, ord, i, ksPriority) ==
    IF i > Len(ord.KeyspacesForTables) THEN [Items |-> <<>>, Registry |-> registry]
    ELSE LET ksName == ord.KeyspacesForTables[i]
             isDefault == ksName = defaultKs
             priority == IF isDefault THEN ksPriority ELSE ksPriority + 10
             here == allTableItems(s.Keyspaces[ksName], ksName, isDefault,
                                   KeyspaceGroupID(ksName), ord.Tables[ksName],
                                   ord.Views[ksName])
             rest == allKeyspacesLoop(s, defaultKs,
                                      RegisterKeyspace(registry, ksName, priority), ord,
                                      i + 1, ksPriority + 1)
         IN  [Items |-> here \o rest.Items, Registry |-> rest.Registry]

\* getTableCompletions: the items and the registry afterwards
getTableCompletions(s, keyspace, defaultKs, registry, ord) ==
    IF s.IsNil THEN [Items |-> <<>>, Registry |-> registry]
    ELSE IF keyspace # <<>>
    THEN IF HasKeyspace(s, keyspace)
         THEN [Items |-> keyspaceTableItems(s.Keyspaces[keyspace], KeyspaceGroupID(keyspace),
                                            ord.Tables[keyspace], ord.Views[keyspace]),
               Registry |-> RegisterKeyspace(registry, keyspace, 0)]
         ELSE [Items |-> <<>>, Registry |-> registry]
    ELSE allKeyspacesLoop(s, defaultKs, registry, ord, 1, 0)

\* the contexts whose completions are tables and keyspaces
TableContexts == {ContextAfterFrom, ContextAfterInsertInto, ContextAfterUpdate}

\* getCompletionsForContext for the contexts completed from the schema, and for the context
\* after LIMIT, which has no completions
getCompletionsForContext(ctx, s, defaultKs, registry, ord) ==
    IF ctx.Type \in TableContexts /\ ~s.IsNil
    THEN LET tables == getTableCompletions(s, ctx.Keyspace, defaultKs, registry, ord)
             keyspaces == getKeyspaceCompletions(s, tables.Registry, ord)
         IN  [Items |-> tables.Items \o keyspaces.Items, Registry |-> keyspaces.Registry]
    ELSE IF ctx.Type = ContextAfterDot /\ ~s.IsNil /\ ctx.Keyspace # <<>>
    THEN getTableCompletions(s, ctx.Keyspace, <<>>, registry, ord)
    ELSE [Items |-> <<>>, Registry |-> registry]

\* filterByPrefix
filterByPrefix(items, prefix) ==
    LET filterText(item) == IF item.FilterText = <<>> THEN item.Label ELSE item.FilterText
        matches(item) == HasPrefix(ToLower(filterText(item)), ToLower(prefix))
    IN  IF prefix = <<>> THEN items ELSE SelectSeq(items, matches)

\* the less function of sortCompletions
completionLess(a, b) ==
    IF a.SortPriority # b.SortPriority THEN a.SortPriority < b.SortPriority
    ELSE StringLess(ToLower(a.Label), ToLower(b.Label))

\* the orders of the positions in I of items in which no item is less than an earlier one
RECURSIVE SortedOrders(_, _)
SortedOrders(items, I) ==
    IF I = {} THEN {<<>>}
    ELSE UNION {{<<m>> \o rest : rest \in SortedOrders(items, I \ {m})} :
                   m \in {m \in I : \A x \in I : ~completionLess(items[x], items[m])}}

\* sortCompletions: sort.Slice does not promise a stable sort, so items of which neither is
\* less than the other may end in either order
sortCompletions(items) ==
    {[i \in DOMAIN o |-> items[o[i]]] : o \in SortedOrders(items, DOMAIN items)}

\* a CompletionContext and the CompletionOptions read on the way to schema completions
CompletionContext(queryText, position, s, defaultKs) ==
    [Query |-> queryText, Position |-> position, Schema |-> s, DefaultKeyspace |-> defaultKs]

CompletionOptions(maxItems, useANTLRFilter) ==
    [MaxItems |-> maxItems, UseANTLRFilter |-> useANTLRFilter]

\* GetCompletionsResultWithOptions under one choice of the map iteration orders: the results
\* the sort and the range over the registry may leave
ResultsUnder(c, o, ord) ==
    LET detected == DetectContext(c.Query, c.Position)
        gen == getCompletionsForContext(detected, c.Schema, c.DefaultKeyspace,
                                        NewGroupRegistry, ord)
        valid == IF o.UseANTLRFilter /\ Len(gen.Items) > 0
                 THEN filterWithANTLR(c.Query, c.Position, gen.Items, detected.Prefix,
                                      EmptyMap)
                 ELSE gen.Items
        matching == IF detected.Prefix # <<>> THEN filterByPrefix(valid, detected.Prefix)
                    ELSE valid
        limit(items) == IF o.MaxItems > 0 /\ Len(items) > o.MaxItems
                        THEN SubSeq(items, 1, o.MaxItems)
                        ELSE items
    IN  {[Groups |-> g, Items |-> limit(sorted), Context |-> detected.Type,
          AllowMultiSelect |-> detected.Type = ContextAfterSelect] :
            sorted \in sortCompletions(matching), g \in Groups(gen.Registry)}

\* GetCompletionsResultWithOptions: the results a call may return
GetCompletionsResultWithOptions(c, o) ==
    UNION {ResultsUnder(c, o, ord) : ord \in IterationOrders(c.Schema)}

\* the largest MaxItems of the requests explored
MaxItemsBound == 2

Name_Users == <<"U","s","e","r","s">>
Name_KS == <<"K","S">>

\* ks.users with the view v on it
TableUsersWithView == AddMaterializedView(TableUsers, Name_v)

\* the fixture of the specification: keyspace ks with the table users
UsersSchema == NewSchema(Name_ks :> NewKeyspace(Name_ks, Name_users :> TableUsers))

\* tables whose names differ in case only: "Users" and users
CaseSchema ==
    NewSchema((Name_ks :> NewKeyspace(Name_ks, (Name_users :> TableUsers)
                                               @@ (Name_Users :> NewTable(Name_Users))))
              @@ (Name_app :> NewKeyspace(Name_app, (Name_logs :> TableLogs))))

\* a table with a materialized view, and a second keyspace with a table of the same name
ViewSchema ==
    NewSchema((Name_ks :> NewKeyspace(Name_ks, (Name_users :> TableUsersWithView)
                                               @@ (Name_logs :> TableLogs)))
              @@ (Name_app :> NewKeyspace(Name_app, (Name_users :> NewTable(Name_users)))))

CompletionSchemas == {NilSchema, UsersSchema, FixtureSchema, CaseSchema, ViewSchema}

CQ_SelectFrom == <<"S","E","L","E","C","T"," ","*"," ","F","R","O","M"," ">>
CQ_SelectFromU == <<"s","e","l","e","c","t"," ","*"," ","f","r","o","m"," ","U">>
CQ_InsertInto == <<"I","N","S","E","R","T"," ","I","N","T","O"," ">>
CQ_Update == <<"U","P","D","A","T","E"," "," ">>
CQ_Dot == <<"S","E","L","E","C","T"," ","*"," ","F","R","O","M"," ","k","s",".">>
CQ_Qualified == <<"S","E","L","E","C","T"," ","*"," ","F","R","O","M"," ","a","p","p",".","l","o","g","s">>
CQ_Limit == <<"S","E","L","E","C","T"," ","*"," ","F","R","O","M"," ","u","s","e","r","s"," ","L","I","M","I","T"," ">>

CompletionQueries ==
    {CQ_SelectFrom, CQ_SelectFromU, CQ_InsertInto, CQ_Update, CQ_Dot, CQ_Qualified, CQ_Limit}

\* the cursor at the end of the text, past it, or just after the FROM of the longer queries
CompletionPositions(q) == {Len(q), Len(q) + 1} \cup (IF Len(q) > 15 THEN {14} ELSE {})

InitComplete ==
    /\ pc = "request"
    /\ SchemaIdle /\ AnalyzeIdle /\ DiagIdle
    /\ \E q \in CompletionQueries, s \in CompletionSchemas, d \in {Name_ks, Name_app, <<>>} :
       \E p \in CompletionPositions(q), n \in 0..MaxItemsBound, f \in BOOLEAN :
           given = [ctx |-> CompletionContext(q, p, s, d), opts |-> CompletionOptions(n, f)]
    /\ returned = <<>>

DoGetCompletions ==
    /\ pc = "request"
    /\ returned' \in GetCompletionsResultWithOptions(given.ctx, given.opts)
    /\ pc' = "completed"
    /\ UNCHANGED <<tbl, calls, opts, parsed, result, rawMessage, query, transform, given>>

NextComplete == DoGetCompletions
SpecComplete == InitComplete /\ [][NextComplete]_vars

Completed == pc = "completed"

\* C12: for a fixed query, cursor offset, schema, default keyspace and options, every call
\* returns the same sequence of items, whatever the map iteration orders and whatever the
\* sort does with items it does not order.
C12_SameItemsEveryCall ==
    Completed
    => \A r \in GetCompletionsResultWithOptions(given.ctx, given.opts) :
           r.Items = returned.Items

\* the request completes table names with no keyspace qualifier, and its default keyspace
\* is a keyspace of its schema
UnqualifiedTableRequest ==
    /\ Completed
    /\ returned.Context \in TableContexts
    /\ DetectContext(given.ctx.Query, given.ctx.Position).Keyspace = <<>>
    /\ HasKeyspace(given.ctx.Schema, given.ctx.DefaultKeyspace)

\* the label keyspace.table
Dotted(keyspace, table) == keyspace \o <<".">> \o table

\* the tables of keyspace k of the request's schema
TablesOf(k) == DOMAIN given.ctx.Schema.Keyspaces[k].Tables

\* in a list of items, the tables of the default keyspace d go by their bare names and the
\* tables of the other keyspaces by their dotted names only
LabelledByKeyspace(items, d) ==
    /\ \A i \in DOMAIN items :
           items[i].Kind = KindTable
           => \/ /\ items[i].Groups = <<KeyspaceGroupID(d)>>
                 /\ items[i].Label \in TablesOf(d)
              \/ \E k \in DOMAIN given.ctx.Schema.Keyspaces \ {d} :
                     /\ items[i].Groups = <<KeyspaceGroupID(k)>>
                     /\ \E t \in TablesOf(k) : items[i].Label = Dotted(k, t)
    /\ \A i \in DOMAIN items : \A t \in TablesOf(d) : items[i].Label # Dotted(d, t)

\* C14: when table names are completed with no keyspace qualifier and default keyspace D,
\* the candidates hold every table of D under its bare name with kind table and never under
\* D.<table>, and the tables of every other keyspace under <keyspace>.<table> only; the
\* result keeps these labels, and it holds every table of D that matches the typed prefix
\* unless the list was cut at the maximum.
C14_DefaultKeyspaceTablesBare ==
    UnqualifiedTableRequest
    => LET d == given.ctx.DefaultKeyspace
           s == given.ctx.Schema
           prefix == DetectContext(given.ctx.Query, given.ctx.Position).Prefix
           bare(items, t) ==
               \E i \in DOMAIN items : items[i].Label = t /\ items[i].Kind = KindTable
       IN  /\ \A ord \in IterationOrders(s) :
                  LET items == getTableCompletions(s, <<>>, d, NewGroupRegistry, ord).Items
                  IN  /\ \A t \in TablesOf(d) : bare(items, t)
                      /\ \A k \in DOMAIN s.Keyspaces \ {d} : \A t \in TablesOf(k) :
                             \E i \in DOMAIN items :
                                 items[i].Label = Dotted(k, t) /\ items[i].Kind = KindTable
                      /\ LabelledByKeyspace(items, d)
           /\ LabelledByKeyspace(returned.Items, d)
           /\ (given.opts.MaxItems = 0 \/ Len(returned.Items) < given.opts.MaxItems)
              => \A t \in TablesOf(d) :
                     HasPrefix(ToLower(t), ToLower(prefix)) => bare(returned.Items, t)

\* C14 witness: at the end of "SELECT * FROM " with the schema ks.users and default keyspace
\* ks, the result holds the table item users and no item ks.users
C14_Witness ==
    /\ UnqualifiedTableRequest
    /\ given.ctx.Query = CQ_SelectFrom
    /\ given.ctx.Position = Len(CQ_SelectFrom)
    /\ given.ctx.Schema = UsersSchema
    /\ given.ctx.DefaultKeyspace = Name_ks
    /\ \E i \in DOMAIN returned.Items :
           returned.Items[i].Label = Name_users /\ returned.Items[i].Kind = KindTable
    /\ \A i \in DOMAIN returned.Items : returned.Items[i].Label # Dotted(Name_ks, Name_users)

-----------------------------------------------------------------------------
(* The group registry of one completion request: any sequence of           *)
(* registrations.  given is the sequence of groups handed to Register so   *)
(* far, returned the registry.                                             *)

\* longest sequence of registrations explored
MaxRegistrations == 3

\* groups handed to Register directly: two of them share an ID
RegistryGroups ==
    {CompletionGroup(<<"g">>, GroupKindCategory, "first", "", 1),
     CompletionGroup(<<"g">>, GroupKindSource, "second", "", 0),
     NewKeyspaceGroup(Name_ks, 7)}

InitRegistry ==
    /\ pc = "registry"
    /\ SchemaIdle /\ AnalyzeIdle /\ DiagIdle
    /\ given = <<>>
    /\ returned = NewGroupRegistry

\* one registration: the registry afterwards, and the group handed to Register, if any
Registration(registryAfter, handed) ==
    /\ pc = "registry"
    /\ Len(given) < MaxRegistrations
    /\ returned' = registryAfter
    /\ given' = given \o handed
    /\ UNCHANGED <<pc, tbl, calls, opts, parsed, result, rawMessage, query, transform>>

DoRegister ==
    \E g \in RegistryGroups : Registration(Register(returned, g), <<g>>)

DoRegisterKeyspace ==
    \E k \in {Name_ks, Name_app}, p \in {0, 10} :
        Registration(RegisterKeyspace(returned, k, p), <<NewKeyspaceGroup(k, p)>>)

DoRegisterSource ==
    \E t \in {Name_users, Name_ks}, p \in {0, 1} :
        Registration(RegisterSource(returned, t, p), <<NewSourceGroup(t, p)>>)

DoRegisterKeyType ==
    \E keyType \in {"partition", "clustering", "static", "regular", ""} :
        Registration(RegisterKeyType(returned, keyType),
                     <<KeyTypeGroups[KeyTypeID(keyType)]>>)

DoRegisterFunctionCategory ==
    \E f \in {"ttl", "token", "myfunc"} :
        Registration(RegisterFunctionCategory(returned, f),
                     <<FunctionCategoryGroups[FunctionCategoryID(f)]>>)

DoRegisterTypeCategory ==
    \E t \in {"list", "uuid", "mytype"} :
        Registration(RegisterTypeCategory(returned, t),
                     <<TypeCategoryGroups[TypeCategoryID(t)]>>)

DoRegisterSchemaCategory ==
    \E id \in {GroupCatKeyspaces, GroupCatTables, GroupCatColumns, GroupKeyStatic} :
        Registration(RegisterSchemaCategory(returned, id),
                     IF id \in DOMAIN SchemaCategoryGroups
                     THEN <<SchemaCategoryGroups[id]>> ELSE <<>>)

NextRegistry ==
    \/ DoRegister
    \/ DoRegisterKeyspace
    \/ DoRegisterSource
    \/ DoRegisterKeyType
    \/ DoRegisterFunctionCategory
    \/ DoRegisterTypeCategory
    \/ DoRegisterSchemaCategory

SpecRegistry == InitRegistry /\ [][NextRegistry]_vars

InRegistry == pc = "registry"

\* the first group handed to Register under the ID
FirstRegistered(id) == given[MinOf({i \in DOMAIN given : given[i].ID = id})]

\* C15: after any sequence of registrations, Groups() holds exactly one group for every ID
\* registered, the first one registered under that ID, so that registering an ID again
\* changes nothing.
C15_OneGroupPerIDFirstWins ==
    InRegistry
    => \A groups \in Groups(returned) :
           /\ Len(groups) = Cardinality({given[i].ID : i \in DOMAIN given})
           /\ \A i \in DOMAIN given : \E j \in DOMAIN groups : groups[j].ID = given[i].ID
           /\ \A j \in DOMAIN groups :
                  /\ \E i \in DOMAIN given : given[i].ID = groups[j].ID
                  /\ groups[j] = FirstRegistered(groups[j].ID)

\* C15 witness: the category of the collection functions and then the category of the
\* collection types, which has the same ID, were registered, and the registry holds the
\* former
C15_Witness ==
    /\ InRegistry
    /\ given = <<FunctionCategoryGroups[GroupCatCollection], TypeCategoryGroups[GroupCatCollType]>>
    /\ FunctionCategoryGroups[GroupCatCollection] # TypeCategoryGroups[GroupCatCollType]
    /\ Groups(returned) = {<<FunctionCategoryGroups[GroupCatCollection]>>}

\* ---------------------------------------------------------------------------
\* pkg/tokenize: classification of lexer tokens for syntax highlighting.
\* A token is [Text, Type, Channel]; Type is the name of the lexer's token type.
\* ---------------------------------------------------------------------------

TokenDefaultChannel == "default"
TokenHiddenChannel == "hidden"

TokenKeyword == "keyword"
TokenFunction == "function"
TokenType_ == "type"
TokenString == "string"
TokenNumber == "number"
TokenComment == "comment"
TokenIdentifier == "identifier"
TokenOperator == "operator"
TokenPunctuation == "punctuation"
TokenPartitionKey == "partition_key"
TokenClusteringKey == "clustering_key"
TokenColumn == "column"
TokenPlaceholder == "placeholder"

\* The entries of the static hover tables that the modelled tokens can hit.
HoverKeywords ==
    {<<"S","E","L","E","C","T">>, <<"F","R","O","M">>, <<"I","N">>, <<"V","A","L","U","E","S">>, <<"T","T","L">>, <<"K","E","Y">>, <<"U","S","E","R">>, <<"T","O","K","E","N">>, <<"W","R","I","T","E","T","I","M","E">>,
     <<"U","P","D","A","T","E">>, <<"S","E","T">>, <<"I","N","S","E","R","T">>, <<"I","N","T","O">>, <<"U","S","E">>}

HoverFunctions ==
    {<<"u","u","i","d">>, <<"n","o","w">>, <<"t","o","k","e","n">>, <<"c","o","u","n","t">>, <<"w","r","i","t","e","t","i","m","e">>, <<"t","t","l">>}

HoverTypes ==
    {<<"i","n","t">>, <<"t","e","x","t">>, <<"u","u","i","d">>, <<"t","i","m","e","s","t","a","m","p">>, <<"s","e","t">>}

IsKeyword(name) == ToUpper(name) \in HoverKeywords
IsFunction(name) == ToLower(name) \in HoverFunctions
IsType(name) == ToLower(name) \in HoverTypes

PunctuationTypes ==
    {"LR_BRACKET", "RR_BRACKET", "LC_BRACKET", "RC_BRACKET", "LS_BRACKET", "RS_BRACKET", "COMMA", "SEMI", "COLON", "DOT"}

OperatorTypes ==
    {"STAR", "DIVIDE", "MODULE", "PLUS", "MINUS", "MINUSMINUS", "OPERATOR_EQ", "OPERATOR_LT", "OPERATOR_GT", "OPERATOR_LTE", "OPERATOR_GTE", "OPERATOR_NEQ"}

NumericTypes ==
    {"DECIMAL_LITERAL", "FLOAT_LITERAL", "HEXADECIMAL_LITERAL", "REAL_LITERAL"}

CommentTypes ==
    {"COMMENT_INPUT", "LINE_COMMENT", "SPEC_MYSQL_COMMENT"}

\* K_ADD through K_VECTOR_SEARCH_INDEXING: the K_* types of the modelled tokens.
CqlLexerKeywordTypes ==
    {"K_SELECT", "K_FROM", "K_IN", "K_KEY", "K_TOKEN", "K_WRITETIME", "K_TTL", "K_USERS", "K_STATUS", "K_INT", "K_TEXT"}

tokenizeIsKeywordToken(tokenType) == tokenType \in CqlLexerKeywordTypes

\* A semantic-context map: nil (no context supplied) or a set of lower-cased
\* names.
NilSet == [nil |-> TRUE, names |-> {}]

makeSet(items) == IF items = {} THEN NilSet ELSE [nil |-> FALSE, names |-> {ToLower(x) : x \in items}]

InContext(set, lowerText) == ~set.nil /\ lowerText \in set.names

semanticOr(lowerText, partitionKeys, clusteringKeys, columns, fallback) ==
    IF InContext(partitionKeys, lowerText) THEN TokenPartitionKey
    ELSE IF InContext(clusteringKeys, lowerText) THEN TokenClusteringKey
    ELSE IF InContext(columns, lowerText) THEN TokenColumn
    ELSE fallback

\* afterText is input[tok.GetStop()+1:], the text that follows the token.
classifyANTLRToken(tok, afterText, partitionKeys, clusteringKeys, columns) ==
    LET text == tok.Text
        lowerText == ToLower(text)
        afterToken == TrimSpace(afterText)
    IN IF tok.Channel = TokenHiddenChannel
       THEN IF HasPrefix(text, <<"-","-">>) \/ HasPrefix(text, <<"/","/">>) \/ HasPrefix(text, <<"/","*">>)
            THEN TokenComment ELSE TokenIdentifier
       ELSE IF tok.Type \in PunctuationTypes THEN TokenPunctuation
       ELSE IF tok.Type \in OperatorTypes THEN TokenOperator
       ELSE IF tok.Type \in {"STRING_LITERAL", "CODE_BLOCK"} THEN TokenString
       ELSE IF tok.Type \in NumericTypes THEN TokenNumber
       ELSE IF tok.Type = "QMARK" THEN TokenPlaceholder
       ELSE IF tok.Type = "UUID" THEN TokenIdentifier
       ELSE IF tok.Type = "DURATION_LITERAL" THEN TokenNumber
       ELSE IF tok.Type \in CommentTypes THEN TokenComment
       ELSE IF tok.Type = "OBJECT_NAME"
       THEN semanticOr(lowerText, partitionKeys, clusteringKeys, columns, TokenIdentifier)
       ELSE IF Len(afterToken) > 0 /\ afterToken[1] = "(" THEN TokenFunction
       ELSE IF IsType(lowerText) THEN TokenType_
       ELSE IF IsKeyword(lowerText)
       THEN semanticOr(lowerText, partitionKeys, clusteringKeys, columns, TokenKeyword)
       ELSE IF tokenizeIsKeywordToken(tok.Type)
       THEN semanticOr(lowerText, partitionKeys, clusteringKeys, columns, TokenIdentifier)
       ELSE TokenIdentifier

LexToken(text, type) == [Text |-> text, Type |-> type, Channel |-> TokenDefaultChannel]

\* Tokens of every lexical class the classifier distinguishes.
TokenizeTokens ==
    { LexToken(<<"c","o","u","n","t">>, "OBJECT_NAME"), LexToken(<<"m","y","f","u","n","c">>, "OBJECT_NAME"),
      LexToken(<<"n","o","w">>, "OBJECT_NAME"), LexToken(<<"i","d">>, "OBJECT_NAME"),
      LexToken(<<"S","E","L","E","C","T">>, "K_SELECT"), LexToken(<<"i","n">>, "K_IN"),
      LexToken(<<"t","o","k","e","n">>, "K_TOKEN"), LexToken(<<"w","r","i","t","e","t","i","m","e">>, "K_WRITETIME"),
      LexToken(<<"k","e","y">>, "K_KEY"), LexToken(<<"u","s","e","r","s">>, "K_USERS"),
      LexToken(<<"s","t","a","t","u","s">>, "K_STATUS"), LexToken(<<"i","n","t">>, "K_INT"),
      LexToken(<<"(">>, "LR_BRACKET"), LexToken(<<",">>, "COMMA"),
      LexToken(<<"*">>, "STAR"), LexToken(<<"=">>, "OPERATOR_EQ"),
      LexToken(<<"'","a","'">>, "STRING_LITERAL"), LexToken(<<"1","0">>, "DECIMAL_LITERAL"),
      LexToken(<<"?">>, "QMARK"),
      [Text |-> <<"-","-"," ","n","o","t","e">>, Type |-> "LINE_COMMENT", Channel |-> TokenHiddenChannel] }

\* What follows the token in the input.
TokenizeFollowers ==
    {<<"(","x",")">>, <<" ","(","x",")">>, <<"\n","(","*",")">>, <<" ","F","R","O","M"," ","t">>, <<","," ","b">>, <<>>}

SemanticSets(tok) == {makeSet({}), makeSet({tok.Text}), makeSet({<<"o","t","h","e","r">>})}

InitTokenize ==
    /\ pc = "token"
    /\ SchemaIdle /\ AnalyzeIdle /\ DiagIdle
    /\ \E tok \in TokenizeTokens, afterText \in TokenizeFollowers :
         \E pk \in SemanticSets(tok), ck \in SemanticSets(tok), cols \in SemanticSets(tok) :
            given = [tok |-> tok, afterText |-> afterText, partitionKeys |-> pk, clusteringKeys |-> ck, columns |-> cols]
    /\ returned = <<>>

DoClassify ==
    /\ pc = "token"
    /\ returned' = classifyANTLRToken(given.tok, given.afterText, given.partitionKeys, given.clusteringKeys, given.columns)
    /\ pc' = "classified"
    /\ UNCHANGED <<tbl, calls, opts, parsed, result, rawMessage, query, transform, given>>

NextTokenize == DoClassify

SpecTokenize == InitTokenize /\ [][NextTokenize]_vars

Classified == pc = "classified"

LexicalOnly(tok) ==
    \/ tok.Channel = TokenHiddenChannel
    \/ tok.Type \in PunctuationTypes \cup OperatorTypes \cup NumericTypes \cup CommentTypes
    \/ tok.Type \in {"STRING_LITERAL", "CODE_BLOCK", "QMARK", "UUID", "DURATION_LITERAL"}

FollowedByParen(afterText) ==
    LET afterToken == TrimSpace(afterText) IN Len(afterToken) > 0 /\ afterToken[1] = "("

\* C20: an identifier-class or keyword-class token whose next non-whitespace
\* character is "(" is classified as function, whatever its lexical type
\* (plain identifier, reserved keyword, non-reserved keyword) and whatever
\* semantic context is supplied.
C20_FollowedByParenIsFunction ==
    (Classified /\ ~LexicalOnly(given.tok) /\ FollowedByParen(given.afterText)) => returned = TokenFunction

\* ---------------------------------------------------------------------------
\* pkg/format: the formatter.
\* A lexer token is [Text, Type, Channel, Role]: Type is the lexer's token type
\* number, Role is the grammar rule the token is matched by in a valid
\* statement ("keyword", "identifier", "symbol", "literal", "space"); the
\* formatter never reads Role.
\* ---------------------------------------------------------------------------

Compact == "compact"
Pretty == "pretty"

FormatOptions(style, indentString, uppercaseKeywords) ==
    [Style |-> style, IndentString |-> indentString, UppercaseKeywords |-> uppercaseKeywords]

FormatDefaultOptions == FormatOptions(Pretty, <<" "," "," "," ">>, FALSE)

CompactOptions == FormatOptions(Compact, <<>>, TRUE)

\* antlr.TokenEOF
TokenEOF == 0 - 1

\* the first keyword type of the lexer
CqlLexerK_ADD == 24

\* the last token type the formatter takes for a keyword
LastKeywordType == 180

isKeywordToken(tokenType) == tokenType >= 1 /\ tokenType <= LastKeywordType

KeywordTokenType == CqlLexerK_ADD
SymbolTokenType == CqlLexerK_ADD - 1
ObjectNameTokenType == LastKeywordType + 1
LiteralTokenType == LastKeywordType + 2
SpaceTokenType == LastKeywordType + 3

newlineKeywords ==
    [k \in {<<"F","R","O","M">>, <<"W","H","E","R","E">>, <<"O","R","D","E","R">>, <<"G","R","O","U","P">>, <<"L","I","M","I","T">>, <<"A","L","L","O","W">>, <<"B","Y","P","A","S","S">>, <<"U","S","I","N","G">>, <<"S","E","T">>, <<"V","A","L","U","E","S">>, <<"I","F">>, <<"W","I","T","H">>, <<"P","E","R">>, <<"A","P","P","L","Y">>} |-> TRUE]
    @@ [k \in {<<"A","N","D">>, <<"O","R">>, <<"P","R","I","M","A","R","Y">>, <<"B","E","G","I","N">>, <<"I","N","S","E","R","T">>, <<"U","P","D","A","T","E">>, <<"D","E","L","E","T","E">>} |-> FALSE]

keywordsWithSpace ==
    {<<"I","N">>, <<"K","E","Y">>, <<"K","E","Y","S">>, <<"E","N","T","R","I","E","S">>, <<"F","U","L","L">>, <<"V","A","L","U","E","S">>, <<"P","A","R","T","I","T","I","O","N">>}

needsSpaceBetween(prev, curr) ==
    IF prev = <<>> \/ curr = <<>> THEN FALSE
    ELSE IF prev \in {<<"(">>, <<"[">>, <<"{">>, <<"<">>} THEN FALSE
    ELSE IF curr \in {<<")">>, <<"]">>, <<"}">>, <<",">>, <<";">>, <<".">>, <<":">>, <<">">>} THEN FALSE
    ELSE IF prev = <<".">> THEN FALSE
    ELSE IF curr = <<"(">> THEN ToUpper(prev) \in keywordsWithSpace
    ELSE IF curr = <<"<">> THEN FALSE
    ELSE TRUE

\* A parse-tree node is the range of token indices it spans, or NoNode (nil).
NoNode == [nil |-> TRUE, start |-> 0, stop |-> 0]

Node(start, stop) == [nil |-> FALSE, start |-> start, stop |-> stop]

\* the elements of S in increasing order
Ascending(S) == [k \in 1..Cardinality(S) |-> CHOOSE i \in S : Cardinality({j \in S : j < i}) = k - 1]

\* strings.Join(parts, ""), and what a strings.Builder holds after the writes
RECURSIVE ConcatRange(_, _, _)
ConcatRange(parts, lo, hi) ==
    IF lo > hi THEN <<>>
    ELSE IF lo = hi THEN parts[lo]
    ELSE ConcatRange(parts, lo, (lo + hi) \div 2) \o ConcatRange(parts, (lo + hi) \div 2 + 1, hi)

Concat(parts) == ConcatRange(parts, 1, Len(parts))

\* The loop of getOriginalText / getOriginalTextRaw over allTokens. taken are
\* the tokens it does not pass over (those of the node, on the default channel);
\* at the k-th of them lastToken is the one before, nil at the first, and the
\* loop appends a space if needed and the text.
originalTextLoop(allTokens, taken, uppercase) ==
    LET textOf(k) ==
            LET token == allTokens[taken[k]]
            IN IF uppercase /\ isKeywordToken(token.Type) THEN ToUpper(token.Text) ELSE token.Text
        partsAt(k) ==
            (IF k > 1 /\ needsSpaceBetween(allTokens[taken[k - 1]].Text, textOf(k)) THEN <<" ">> ELSE <<>>) \o textOf(k)
    IN Concat([k \in 1..Len(taken) |-> partsAt(k)])

tokensOfNode(allTokens, node) ==
    Ascending({i \in DOMAIN allTokens : i >= node.start /\ i <= node.stop /\ allTokens[i].Channel = TokenDefaultChannel})

getOriginalTextRaw(f, node) ==
    IF node.nil THEN <<>> ELSE originalTextLoop(f.tokens, tokensOfNode(f.tokens, node), FALSE)

getOriginalText(f, node) ==
    IF node.nil THEN <<>> ELSE originalTextLoop(f.tokens, tokensOfNode(f.tokens, node), f.opts.UppercaseKeywords)

formatNode(f, node) == IF node.nil THEN <<>> ELSE getOriginalText(f, node)

\* The loop of formatTokenBased. written are the tokens it does not pass over
\* (hidden-channel tokens and the end-of-file token are skipped). At the k-th
\* of them lastTokenText is the text written for the one before, lastWasNewline
\* says whether a newline was written after that one, and the output is empty
\* at the first only (no token has an empty text). The loop writes a newline
\* or a space if called for, the text, and a newline after a ";" that is
\* directly followed by INSERT, UPDATE, DELETE or APPLY.
tokenLoop(f, written) ==
    LET upperText(k) == ToUpper(f.tokens[written[k]].Text)
        textOf(k) ==
            IF f.opts.UppercaseKeywords /\ isKeywordToken(f.tokens[written[k]].Type)
            THEN upperText(k) ELSE f.tokens[written[k]].Text
        breakAfter(k) ==
            /\ f.opts.Style = Pretty /\ textOf(k) = <<";">> /\ written[k] + 1 <= Len(f.tokens)
            /\ f.tokens[written[k] + 1].Channel # TokenHiddenChannel
            /\ ToUpper(f.tokens[written[k] + 1].Text) \in {<<"I","N","S","E","R","T">>, <<"U","P","D","A","T","E">>, <<"D","E","L","E","T","E">>, <<"A","P","P","L","Y">>}
        lastWasNewline(k) == k > 1 /\ breakAfter(k - 1)
        lastTokenText(k) == IF k > 1 THEN textOf(k - 1) ELSE <<>>
        breakBefore(k) ==
            /\ f.opts.Style = Pretty /\ ~lastWasNewline(k)
            /\ upperText(k) \in DOMAIN newlineKeywords /\ newlineKeywords[upperText(k)]
            /\ k > 1 /\ lastTokenText(k) # <<"(">>
        space(k) ==
            k > 1 /\ ~(lastWasNewline(k) \/ breakBefore(k)) /\ needsSpaceBetween(lastTokenText(k), textOf(k))
        writes(k) ==
            (IF breakBefore(k) THEN <<"\n">> ELSE <<>>) \o (IF space(k) THEN <<" ">> ELSE <<>>)
            \o textOf(k) \o (IF breakAfter(k) THEN <<"\n">> ELSE <<>>)
    IN Concat([k \in 1..Len(written) |-> writes(k)])

writtenTokens(allTokens) ==
    Ascending({i \in DOMAIN allTokens : allTokens[i].Channel # TokenHiddenChannel /\ allTokens[i].Type # TokenEOF})

formatTokenBasedBreakingLines(f) ==
    LET trimmed == TrimSpace(tokenLoop([f EXCEPT !.opts.Style = Pretty], writtenTokens(f.tokens)))
    IN IF HasSuffix(trimmed, <<";">>) THEN trimmed ELSE trimmed \o <<";">>

formatTokenBased(f) ==
    LET trimmed == TrimSpace(tokenLoop(f, writtenTokens(f.tokens)))
    IN IF HasSuffix(trimmed, <<";">>) THEN trimmed ELSE trimmed \o <<";">>

\* "\n" followed by the text of the clause, for a clause that is present
clauseLine(f, node) == IF node.nil THEN <<>> ELSE <<"\n">> \o formatNode(f, node)

formatSelect(f, ctx) ==
    IF ctx.nil THEN formatTokenBased(f)
    ELSE <<"S","E","L","E","C","T">>
         \o (IF ctx.DistinctSpec THEN <<" ","D","I","S","T","I","N","C","T">> ELSE <<>>)
         \o (IF ctx.KwJson THEN <<" ","J","S","O","N">> ELSE <<>>)
         \o <<" ">>
         \o formatNode(f, ctx.SelectElements)
         \o <<"\n">>
         \o formatNode(f, ctx.FromSpec)
         \o clauseLine(f, ctx.WhereSpec)
         \o clauseLine(f, ctx.GroupBySpec)
         \o clauseLine(f, ctx.OrderSpec)
         \o clauseLine(f, ctx.PerPartitionLimitSpec)
         \o clauseLine(f, ctx.LimitSpec)
         \o clauseLine(f, ctx.AllowFilteringSpec)
         \o clauseLine(f, ctx.BypassCacheSpec)
         \o clauseLine(f, ctx.UsingTimeoutSpec)
         \o <<";">>

StatementUnknown == "UNKNOWN"

\* f is [opts, tokens, result]; result is [Type, Cql], Cql the first statement
\* of the input: [nil, BeginBatch, Select_]. The statement kinds modelled are
\* SELECT, the INSERT/UPDATE/DELETE that opens a BEGIN ... APPLY BATCH wrapper,
\* and the kinds that have no structured renderer.
format(f) ==
    IF ~f.result.Cql.nil /\ f.opts.Style = Pretty /\ f.result.Type = StatementSelect
    THEN formatSelect(f, f.result.Cql.Select_)
    ELSE formatTokenBased(f)

Format(parseResult, fopts) ==
    IF parseResult.nil THEN <<>> ELSE format([opts |-> fopts, tokens |-> parseResult.Tokens, result |-> parseResult])

\* ---------------------------------------------------------------------------
\* pkg/parse: what Parse hands to the formatter. The token list holds every
\* token of the input, hidden ones included, and the end-of-file token last.
\* ---------------------------------------------------------------------------

EOFToken == [Text |-> <<"<","E","O","F",">">>, Type |-> TokenEOF, Channel |-> TokenDefaultChannel, Role |-> "eof"]

\* the indices of the default-channel tokens, in order
defaultIndices(tokens) ==
    Ascending({i \in DOMAIN tokens : tokens[i].Channel = TokenDefaultChannel /\ tokens[i].Type # TokenEOF})

\* rule cqls: the first statement ends before the first statement separator
firstStatement(tokens) ==
    LET idx == defaultIndices(tokens)
        seps == {k \in DOMAIN idx : tokens[idx[k]].Text = <<";">>}
    IN IF seps = {} THEN idx ELSE SubSeq(idx, 1, MinOf(seps) - 1)

SelectClauseKeywords ==
    {<<"F","R","O","M">>, <<"W","H","E","R","E">>, <<"G","R","O","U","P">>, <<"O","R","D","E","R">>, <<"P","E","R">>, <<"L","I","M","I","T">>, <<"A","L","L","O","W">>, <<"B","Y","P","A","S","S">>, <<"U","S","I","N","G">>}

\* rule select_: kwSelect distinctSpec? kwJson? selectElements fromSpec
\* whereSpec? groupBySpec? orderSpec? perPartitionLimitSpec? limitSpec?
\* allowFilteringSpec? bypassCacheSpec? usingTimeoutSpec?
selectTree(tokens, idx) ==
    LET n == Len(idx)
        up(k) == ToUpper(tokens[idx[k]].Text)
        starts == {k \in 1..n : up(k) \in SelectClauseKeywords /\ ~(up(k) = <<"L","I","M","I","T">> /\ k > 1 /\ up(k - 1) = <<"P","A","R","T","I","T","I","O","N">>)}
        clause(kw) ==
            IF \E k \in starts : up(k) = kw
            THEN LET k == MinOf({j \in starts : up(j) = kw})
                 IN Node(idx[k], idx[MinOf({j \in starts : j > k} \cup {n + 1}) - 1])
            ELSE NoNode
        distinct == n >= 2 /\ up(2) = <<"D","I","S","T","I","N","C","T">>
        afterDistinct == IF distinct THEN 3 ELSE 2
        json == n >= afterDistinct /\ up(afterDistinct) = <<"J","S","O","N">>
        first == IF json THEN afterDistinct + 1 ELSE afterDistinct
        from == MinOf({k \in starts : up(k) = <<"F","R","O","M">>})
    IN [nil |-> FALSE, DistinctSpec |-> distinct, KwJson |-> json,
        SelectElements |-> Node(idx[first], idx[from - 1]),
        FromSpec |-> clause(<<"F","R","O","M">>), WhereSpec |-> clause(<<"W","H","E","R","E">>),
        GroupBySpec |-> clause(<<"G","R","O","U","P">>), OrderSpec |-> clause(<<"O","R","D","E","R">>),
        PerPartitionLimitSpec |-> clause(<<"P","E","R">>), LimitSpec |-> clause(<<"L","I","M","I","T">>),
        AllowFilteringSpec |-> clause(<<"A","L","L","O","W">>), BypassCacheSpec |-> clause(<<"B","Y","P","A","S","S">>),
        UsingTimeoutSpec |-> clause(<<"U","S","I","N","G">>)]

NoSelect == [nil |-> TRUE]

detectStatementType(tokens, idx) ==
    LET up(k) == ToUpper(tokens[idx[k]].Text)
        dml == {k \in DOMAIN idx : up(k) \in {<<"I","N","S","E","R","T">>, <<"U","P","D","A","T","E">>, <<"D","E","L","E","T","E">>}}
        word == IF dml = {} THEN up(1) ELSE up(MinOf(dml))
    IN IF up(1) = <<"S","E","L","E","C","T">> THEN StatementSelect
       ELSE IF \E k \in DOMAIN idx : up(k) = <<"A","P","P","L","Y">> THEN StatementUnknown
       ELSE IF word = <<"I","N","S","E","R","T">> THEN StatementInsert
       ELSE IF word = <<"U","P","D","A","T","E">> THEN StatementUpdate
       ELSE IF word = <<"D","E","L","E","T","E">> THEN StatementDelete
       ELSE IF word = <<"U","S","E">> THEN StatementUse
       ELSE StatementUnknown

\* Parse, from the token list on: Cql is the first statement of the input and
\* Type its kind.
ParseTokens(tokens) ==
    LET idx == firstStatement(tokens)
        type == detectStatementType(tokens, idx)
    IN [nil |-> FALSE, Tokens |-> tokens, Type |-> type,
        Cql |-> [nil |-> idx = <<>>,
                 BeginBatch |-> idx # <<>> /\ ToUpper(tokens[idx[1]].Text) = <<"B","E","G","I","N">>,
                 Select_ |-> IF type = StatementSelect THEN selectTree(tokens, idx) ELSE NoSelect]]

\* ---------------------------------------------------------------------------
\* The lexer, for the texts the formatter writes: runs of white space are
\* hidden tokens, a word is a keyword token when the lexer has a keyword of
\* that spelling in any letter case and an object name otherwise, a quoted
\* string is one token, and every other character is a token of its own.
\* ---------------------------------------------------------------------------

LexerKeywords ==
    {<<"S","E","L","E","C","T">>, <<"D","I","S","T","I","N","C","T">>, <<"J","S","O","N">>, <<"F","R","O","M">>, <<"W","H","E","R","E">>, <<"I","N">>, <<"A","N","D">>, <<"L","I","M","I","T">>, <<"A","L","L","O","W">>, <<"F","I","L","T","E","R","I","N","G">>,
     <<"U","S","E">>, <<"B","E","G","I","N">>, <<"B","A","T","C","H">>, <<"A","P","P","L","Y">>, <<"I","N","S","E","R","T">>, <<"I","N","T","O">>, <<"V","A","L","U","E","S">>, <<"U","P","D","A","T","E">>, <<"S","E","T">>,
     <<"K","E","Y">>, <<"T","Y","P","E">>, <<"U","S","E","R","S">>}

\* the part of a string literal that lies before position i is open
inString(text, i) == Cardinality({j \in 1..(i - 1) : text[j] = "'"}) % 2 = 1

charClass(c) ==
    IF c \in Whitespace THEN "space" ELSE IF c \in WordChars THEN "word" ELSE "symbol"

\* a token starts at position i
tokenStart(text, i) ==
    IF inString(text, i) THEN FALSE
    ELSE \/ i = 1
         \/ text[i] = "'"
         \/ inString(text, i - 1)
         \/ charClass(text[i]) = "symbol"
         \/ charClass(text[i]) # charClass(text[i - 1])

lexToken(lexeme) ==
    LET c == lexeme[1]
    IN IF c \in Whitespace
       THEN [Text |-> lexeme, Type |-> SpaceTokenType, Channel |-> TokenHiddenChannel, Role |-> "space"]
       ELSE IF c \in Range(Digits) \/ c = "'"
       THEN [Text |-> lexeme, Type |-> LiteralTokenType, Channel |-> TokenDefaultChannel, Role |-> "literal"]
       ELSE IF c \in WordChars
       THEN IF ToUpper(lexeme) \in LexerKeywords
            THEN [Text |-> lexeme, Type |-> KeywordTokenType, Channel |-> TokenDefaultChannel, Role |-> "word"]
            ELSE [Text |-> lexeme, Type |-> ObjectNameTokenType, Channel |-> TokenDefaultChannel, Role |-> "word"]
       ELSE [Text |-> lexeme, Type |-> SymbolTokenType, Channel |-> TokenDefaultChannel, Role |-> "symbol"]

Lex(text) ==
    LET starts == Ascending({i \in DOMAIN text : tokenStart(text, i)})
        stop(k) == IF k < Len(starts) THEN starts[k + 1] - 1 ELSE Len(text)
    IN [k \in 1..Len(starts) |-> lexToken(SubSeq(text, starts[k], stop(k)))] \o <<EOFToken>>

\* parse.Parse
Parse(input) == ParseTokens(Lex(TrimSpace(input)))

\* ---------------------------------------------------------------------------
\* The statements formatted: the tokens the lexer makes of a valid statement,
\* each with the grammar rule that matches it.
\* ---------------------------------------------------------------------------

\* a keyword, matched as a keyword (kwSelect, kwFrom, ...)
KeywordTok(text) == [Text |-> text, Type |-> KeywordTokenType, Channel |-> TokenDefaultChannel, Role |-> "keyword"]

\* a keyword token matched as a name (reservedKeywordAsTable, reservedKeywordAsColumn)
KeywordNameTok(text) == [Text |-> text, Type |-> KeywordTokenType, Channel |-> TokenDefaultChannel, Role |-> "identifier"]

\* OBJECT_NAME matched as keyspace, table or column
NameTok(text) == [Text |-> text, Type |-> ObjectNameTokenType, Channel |-> TokenDefaultChannel, Role |-> "identifier"]

\* OBJECT_NAME matched as the name of a function
FunctionTok(text) == [Text |-> text, Type |-> ObjectNameTokenType, Channel |-> TokenDefaultChannel, Role |-> "function"]

SymbolTok(text) == [Text |-> text, Type |-> SymbolTokenType, Channel |-> TokenDefaultChannel, Role |-> "symbol"]

LiteralTok(text) == [Text |-> text, Type |-> LiteralTokenType, Channel |-> TokenDefaultChannel, Role |-> "literal"]

SpaceTok(text) == [Text |-> text, Type |-> SpaceTokenType, Channel |-> TokenHiddenChannel, Role |-> "space"]

SelectHeads ==
    { <<KeywordTok(<<"s","e","l","e","c","t">>)>> \o d \o j : d \in {<<>>, <<KeywordTok(<<"d","i","s","t","i","n","c","t">>)>>}, j \in {<<>>, <<KeywordTok(<<"j","s","o","n">>)>>} }

SelectElementLists ==
    { <<SymbolTok(<<"*">>)>>,
      <<KeywordNameTok(<<"k","e","y">>), SymbolTok(<<",">>), NameTok(<<"N","a","m","e">>)>>,
      <<FunctionTok(<<"c","o","u","n","t">>), SymbolTok(<<"(">>), SymbolTok(<<"*">>), SymbolTok(<<")">>)>> }

FromSpecs ==
    { <<KeywordTok(<<"f","r","o","m">>), KeywordNameTok(<<"u","s","e","r","s">>)>>,
      <<KeywordTok(<<"f","r","o","m">>), NameTok(<<"k","s">>), SymbolTok(<<".">>), NameTok(<<"T","b","l">>)>> }

WhereSpecs ==
    { <<>>,
      <<KeywordTok(<<"w","h","e","r","e">>), NameTok(<<"i","d">>), SymbolTok(<<"<">>), LiteralTok(<<"5">>)>>,
      <<KeywordTok(<<"w","h","e","r","e">>), NameTok(<<"N","a","m","e">>), SymbolTok(<<"=">>), LiteralTok(<<"'","a","\n","b","'">>)>>,
      <<KeywordTok(<<"w","h","e","r","e">>), KeywordNameTok(<<"k","e","y">>), KeywordTok(<<"i","n">>), SymbolTok(<<"(">>), LiteralTok(<<"1">>), SymbolTok(<<",">>), LiteralTok(<<"2">>), SymbolTok(<<")">>)>> }

SelectTails ==
    { <<>>, <<KeywordTok(<<"l","i","m","i","t">>), LiteralTok(<<"1","0">>), KeywordTok(<<"a","l","l","o","w">>), KeywordTok(<<"f","i","l","t","e","r","i","n","g">>)>> }

Terminators == { <<>>, <<SymbolTok(<<";">>)>> }

SelectInputs ==
    { h \o e \o f \o w \o t \o z : h \in SelectHeads, e \in SelectElementLists, f \in FromSpecs, w \in WhereSpecs, t \in SelectTails, z \in Terminators }

UseStatements ==
    { <<KeywordTok(<<"u","s","e">>), NameTok(<<"K","s">>)>> \o z : z \in Terminators }

\* BEGIN BATCH ... APPLY BATCH with the statements closed by semicolons
BatchStatement ==
    << KeywordTok(<<"b","e","g","i","n">>), KeywordTok(<<"b","a","t","c","h">>),
       KeywordTok(<<"i","n","s","e","r","t">>), KeywordTok(<<"i","n","t","o">>), NameTok(<<"t">>), SymbolTok(<<"(">>), NameTok(<<"i","d">>), SymbolTok(<<")">>),
       KeywordTok(<<"v","a","l","u","e","s">>), SymbolTok(<<"(">>), LiteralTok(<<"1">>), SymbolTok(<<")">>), SymbolTok(<<";">>),
       KeywordTok(<<"u","p","d","a","t","e">>), NameTok(<<"t">>), KeywordTok(<<"s","e","t">>), NameTok(<<"a">>), SymbolTok(<<"=">>), LiteralTok(<<"1">>),
       KeywordTok(<<"w","h","e","r","e">>), NameTok(<<"i","d">>), SymbolTok(<<"=">>), LiteralTok(<<"1">>), SymbolTok(<<";">>),
       KeywordTok(<<"a","p","p","l","y">>), KeywordTok(<<"b","a","t","c","h">>), SymbolTok(<<";">>) >>

FormatStatements == SelectInputs \cup UseStatements \cup {BatchStatement}

\* the keywords of the statement written in capitals, the names as they are
Capitals(tokens) ==
    [i \in DOMAIN tokens |-> IF tokens[i].Role = "keyword" THEN [tokens[i] EXCEPT !.Text = ToUpper(tokens[i].Text)] ELSE tokens[i]]

\* The input as typed: white space ws between the tokens; when tight, none
\* next to a symbol.
AsTyped(tokens, ws, tight) ==
    LET n == Len(tokens)
        spaced(j) == j < n /\ ~(tight /\ (tokens[j].Role = "symbol" \/ tokens[j + 1].Role = "symbol"))
        at(i) == i + Cardinality({j \in 1..(i - 1) : spaced(j)})
    IN [k \in 1..(IF n = 0 THEN 0 ELSE at(n)) |->
           IF \E i \in 1..n : at(i) = k THEN tokens[CHOOSE i \in 1..n : at(i) = k] ELSE SpaceTok(ws)]

FormatInputs ==
    { AsTyped(toks, ws, tight) \o <<EOFToken>> :
        toks \in FormatStatements \cup {Capitals(s) : s \in FormatStatements}, ws \in {<<" ">>, <<"\n">>}, tight \in BOOLEAN }

FormatOptionSets ==
    { FormatDefaultOptions, [FormatDefaultOptions EXCEPT !.UppercaseKeywords = TRUE],
      CompactOptions, [CompactOptions EXCEPT !.UppercaseKeywords = FALSE] }

\* the text of the input
SourceText(tokens) == Concat([i \in DOMAIN tokens |-> IF tokens[i].Type = TokenEOF THEN <<>> ELSE tokens[i].Text])

InitFormat ==
    /\ pc = "parsed"
    /\ SchemaIdle /\ AnalyzeIdle /\ DiagIdle
    /\ \E tokens \in FormatInputs, fopts \in FormatOptionSets :
         given = [result |-> ParseTokens(tokens), fopts |-> fopts]
    /\ returned = <<>>

\* format.Format on the parsed statement
DoFormat ==
    /\ pc = "parsed"
    /\ returned' = [output |-> Format(given.result, given.fopts), again |-> <<>>]
    /\ pc' = "formatted"
    /\ UNCHANGED <<tbl, calls, opts, parsed, result, rawMessage, query, transform, given>>

\* format.String on the text just written, with the same options: Parse, then
\* Format
DoFormatAgain ==
    /\ pc = "formatted"
    /\ \E reparsed \in {Parse(returned.output)} :
         returned' = [returned EXCEPT !.again = Format(reparsed, given.fopts)]
    /\ pc' = "reformatted"
    /\ UNCHANGED <<tbl, calls, opts, parsed, result, rawMessage, query, transform, given>>

NextFormat == DoFormat \/ DoFormatAgain

SpecFormat == InitFormat /\ [][NextFormat]_vars

Formatted == pc \in {"formatted", "reformatted"}

Reformatted == pc = "reformatted"

\* the tokens of the input that the grammar matches as role
TokensOfRole(role) ==
    {given.result.Tokens[i] : i \in {j \in DOMAIN given.result.Tokens : given.result.Tokens[j].Role = role}}

StructuredMode ==
    given.fopts.Style = Pretty /\ given.result.Type = StatementSelect

\* C16: pretty-formatting a valid statement, parsing the output again and
\* pretty-formatting it with the same options gives the text of the first
\* formatting.
C16_FormatIdempotent ==
    (Reformatted /\ given.fopts.Style = Pretty) => returned.again = returned.output

\* the input holds one statement: no statement separator, or one that ends it
SingleStatement ==
    \A i \in DOMAIN given.result.Tokens :
        given.result.Tokens[i].Text = <<";">>
            => \A j \in (i + 1)..Len(given.result.Tokens) :
                  given.result.Tokens[j].Channel = TokenHiddenChannel \/ given.result.Tokens[j].Type = TokenEOF

NewlineCount(text) == Cardinality({i \in DOMAIN text : text[i] = "\n"})

\* the newlines inside the texts of the tokens the formatter writes
NewlinesInTokenTexts ==
    LET written == writtenTokens(given.result.Tokens)
    IN NewlineCount(Concat([k \in DOMAIN written |-> given.result.Tokens[written[k]].Text]))

C18_IdentifiersKeepCase ==
    Formatted => \A t \in TokensOfRole("identifier") : Contains(returned.output, t.Text)

\* C19: with UppercaseKeywords false every keyword token of the statement is in
\* the output in the letter case of the source, in structured mode and in
\* token-stream mode.
C19_KeywordsKeepCaseUnlessConfigured ==
    (Formatted /\ ~given.fopts.UppercaseKeywords) => \A t \in TokensOfRole("keyword") : Contains(returned.output, t.Text)

-----------------------------------------------------------------------------
(* Claims about the table builder's column list and key flags.             *)

\* how often a name occurs in a list of names
CountOf(name, list) == Cardinality(IndexesOf(name, list))

\* the names of the columns AllColumns returns, in the order returned
AllColumnNames(t) == [i \in DOMAIN AllColumns(t) |-> AllColumns(t)[i].Name]

\* C27: after any sequence of AddColumn/AddStaticColumn calls, repeats
\* included, the column order lists exactly the names of the column map,
\* each exactly once, so AllColumns returns each column exactly once.
C27_ColumnOrderEachOnce ==
    /\ Range(tbl.ColumnOrder) = DOMAIN tbl.Columns
    /\ \A name \in DOMAIN tbl.Columns : CountOf(name, tbl.ColumnOrder) = 1
    /\ \A name \in DOMAIN tbl.Columns : CountOf(name, AllColumnNames(tbl)) = 1

\* C28: after any sequence of builder calls a column's IsPartitionKey flag is
\* set exactly when its name is in the partition-key list, and its
\* IsClusteringKey flag exactly when its name is in the clustering-key list.
C28_FlagsMatchKeyLists ==
    \A name \in DOMAIN tbl.Columns :
        /\ tbl.Columns[name].IsPartitionKey <=> name \in Range(tbl.PartitionKey)
        /\ tbl.Columns[name].IsClusteringKey <=> name \in Range(tbl.ClusteringKey)

-----------------------------------------------------------------------------
(* The missing-semicolon message.                                          *)

\* C29: the raw message "missing ';' at '<EOF>'" is diagnosed by the
\* missing-semicolon pattern: friendly message "Missing semicolon at end",
\* suggestion "Add ';' at the end of the statement".
C29_MissingSemicolonDiagnosed ==
    (Transformed /\ rawMessage = T_MissingSemicolon) =>
        /\ transform.PatternName = "missing-semicolon"
        /\ transform.FriendlyMessage = T_MissingSemicolonAtEnd
        /\ transform.Suggestion = T_AddSemicolon

-----------------------------------------------------------------------------
(* A statement that is complete on the partition key.                      *)

\* every column the statement references exists in the resolved table
ColumnsResolved ==
    \A col \in Range(result.References.Columns) : col = Star \/ HasColumn(ResolvedTable, col)

\* the schema errors that resolution of keyspace, table and columns can raise
ResolutionErrors ==
    SelectSeq(result.SchemaErrors,
              LAMBDA e : e.Type \in {ErrUnknownKeyspace, ErrUnknownTable, ErrUnknownColumn})

\* `SELECT * FROM ks.users WHERE id = 1` against the fixture schema
IsExampleC26 ==
    /\ opts.Schema = FixtureSchema
    /\ parsed.stmtType = StatementSelect /\ parsed.syntaxErrors = 0
    /\ parsed.refs.Keyspace = Name_ks /\ parsed.refs.Table = Name_users
    /\ parsed.refs.SelectColumns = <<Star>>
    /\ parsed.refs.WhereColumns = <<Name_id>>
    /\ parsed.refs.FunctionCalls = <<>>

\* C26: a statement whose keyspace, table and columns all resolve and whose WHERE
\* columns include every partition-key column gets no unknown_keyspace,
\* unknown_table or unknown_column error and no missing_partition_key finding;
\* SELECT * FROM ks.users WHERE id = 1 gets no schema error at all and no
\* missing_partition_key warning.
C26_NoFalsePositive ==
    /\ (TableResolved /\ ColumnsResolved /\ Len(AbsentPartitionKey) = 0)
       => /\ Len(ResolutionErrors) = 0
          /\ Len(OfType(result.Warnings, WarnMissingPartitionKey)) = 0
    /\ (pc = "done" /\ IsExampleC26)
       => /\ Len(result.SchemaErrors) = 0
          /\ Len(OfType(result.Warnings, WarnMissingPartitionKey)) = 0

\* C26 witness: a DELETE on ks.events that restricts both partition-key columns,
\* one of them declared with a capital letter, has been analysed
C26_Witness ==
    /\ TableResolved /\ ColumnsResolved
    /\ result.Type = StatementDelete
    /\ result.References.Table = Name_events
    /\ result.References.WhereColumns = <<Name_tenant, Name_Day>>
    /\ Len(AbsentPartitionKey) = 0
    /\ Len(result.SchemaErrors) = 0

-----------------------------------------------------------------------------
(* Validation of calls of count.                                           *)

\* the calls of count the statement makes
CountCalls == SelectSeq(result.References.FunctionCalls, LAMBDA c : c.Name = "count")

\* the function_arg_count errors raised about count
CountErrors ==
    SelectSeq(result.SchemaErrors,
              LAMBDA e : e.Type = ErrFunctionArgCount /\ e.Object = "count")

\* C23: count() with no argument and no star yields a function_arg_count error,
\* count(*) and count(col) yield none, with or without a schema.
C23_CountArguments ==
    Analyzed =>
        /\ (\E i \in DOMAIN CountCalls : CountCalls[i].ArgCount = 0 /\ ~CountCalls[i].HasStar)
           => Len(CountErrors) > 0
        /\ (\A i \in DOMAIN CountCalls : CountCalls[i].HasStar \/ CountCalls[i].ArgCount = 1)
           => Len(CountErrors) = 0

\* C23 witness: count(*) has been analysed without a schema and raised no error
C23_Witness ==
    /\ Analyzed
    /\ opts.Schema.IsNil
    /\ \E i \in DOMAIN CountCalls : CountCalls[i].HasStar
    /\ Len(CountErrors) = 0

-----------------------------------------------------------------------------
(* The edit distance of pkg/parse on triples of words.                    *)

\* longest word of the two-letter alphabet measured
MaxWordLen == 3

DistanceAlphabet == {"a", "b"}

W_FORM == <<"F","O","R","M">>
W_FROM == <<"F","R","O","M">>
W_kitten == <<"k","i","t","t","e","n">>
W_sitting == <<"s","i","t","t","i","n","g">>

\* every word over the alphabet up to the bound, and the words of the tests
DistanceWords ==
    SeqsUpTo(DistanceAlphabet, MaxWordLen) \cup {W_FORM, W_FROM, W_kitten, W_sitting}

InitDistance ==
    /\ pc = "words"
    /\ given \in [a : DistanceWords, b : DistanceWords, c : DistanceWords]
    /\ returned = <<>>
    /\ SchemaIdle /\ AnalyzeIdle /\ DiagIdle

\* levenshteinDistance on each pair of the three words
DoMeasure ==
    /\ pc = "words"
    /\ returned' = [ab |-> levenshteinDistance(given.a, given.b),
                    ba |-> levenshteinDistance(given.b, given.a),
                    bc |-> levenshteinDistance(given.b, given.c),
                    ac |-> levenshteinDistance(given.a, given.c)]
    /\ pc' = "measured"
    /\ UNCHANGED <<tbl, calls, opts, parsed, result, rawMessage, query, transform, given>>

NextDistance == DoMeasure

SpecDistance == InitDistance /\ [][NextDistance]_vars

Measured == pc = "measured"

\* C25: the edit distance is a metric: symmetric, zero exactly for equal words,
\* and within the triangle inequality; FORM/FROM are 2 apart and
\* kitten/sitting 3.
C25_DistanceIsMetric ==
    Measured =>
        /\ returned.ab = returned.ba
        /\ returned.ab = 0 <=> given.a = given.b
        /\ returned.ac <= returned.ab + returned.bc
        /\ (given.a = W_FORM /\ given.b = W_FROM) => returned.ab = 2
        /\ (given.a = W_kitten /\ given.b = W_sitting) => returned.ab = 3

\* C25 witness: three different words have been measured and the triangle
\* inequality is tight
C25_Witness ==
    /\ Measured
    /\ given.a # given.b /\ given.b # given.c /\ given.a # given.c
    /\ returned.ab > 0 /\ returned.bc > 0
    /\ returned.ac = returned.ab + returned.bc

-----------------------------------------------------------------------------
(* pkg/parse: Multiple and splitStatements.                                *)

\* the scanner's state at the top of splitStatements
SplitStart == [statements |-> <<>>, current |-> <<>>, inStr |-> FALSE, stringChar |-> ""]

\* one iteration of the loop of splitStatements on character i (1-based) of input.
\* In the comment branch the inner loop advances only the body's copy of the range
\* index, which the range statement sets again for the next iteration: the branch
\* writes nothing and skips nothing.
splitStep(input, i, st) ==
    LET ch == input[i]
    IN  IF ~st.inStr
        THEN IF ch = "'" \/ ch = "\""
             THEN [st EXCEPT !.inStr = TRUE, !.stringChar = ch,
                             !.current = Append(st.current, ch)]
             ELSE IF ch = ";"
             THEN LET stmt == TrimSpace(st.current)
                  IN  [st EXCEPT !.statements = IF stmt # <<>>
                                                THEN Append(st.statements, stmt \o <<";">>)
                                                ELSE st.statements,
                                 !.current = <<>>]
             ELSE IF ch = "-" /\ i < Len(input) /\ input[i + 1] = "-"
             THEN st
             ELSE [st EXCEPT !.current = Append(st.current, ch)]
        ELSE LET written == [st EXCEPT !.current = Append(st.current, ch)]
             IN  IF ch = st.stringChar
                 THEN IF i < Len(input) /\ input[i + 1] = st.stringChar
                      THEN written
                      ELSE [written EXCEPT !.inStr = FALSE, !.stringChar = ""]
                 ELSE written

\* the loop of splitStatements over the characters 1..i of input
RECURSIVE splitLoop(_, _)
splitLoop(input, i) ==
    IF i = 0 THEN SplitStart ELSE splitStep(input, i, splitLoop(input, i - 1))

\* splitStatements
splitStatements(input) ==
    LET st   == splitLoop(input, Len(input))
        stmt == TrimSpace(st.current)
    IN  IF stmt # <<>> THEN Append(st.statements, stmt) ELSE st.statements

\* Multiple: the statement texts it hands to Parse, one result each
MultipleTexts(input) ==
    LET statements == splitStatements(input)
        trimmed    == [k \in DOMAIN statements |-> TrimSpace(statements[k])]
        kept       == SelectSeq(trimmed, LAMBDA stmt : stmt # <<>>)
    IN  [k \in DOMAIN kept |->
            IF HasSuffix(kept[k], <<";">>) THEN kept[k] ELSE kept[k] \o <<";">>]

-----------------------------------------------------------------------------
(* Splitting: one call of Multiple on one input.                           *)

\* longest input split
MaxInputLen == 5

SplitAlphabet == {"'", "\"", ";", "-", "a", "\n"}

SplitInputs == SeqsUpTo(SplitAlphabet, MaxInputLen)

InitSplit ==
    /\ pc = "input"
    /\ given \in SplitInputs
    /\ returned = <<>>
    /\ SchemaIdle /\ AnalyzeIdle /\ DiagIdle

DoMultiple ==
    /\ pc = "input"
    /\ returned' = [statements |-> splitStatements(given), parsed |-> MultipleTexts(given)]
    /\ pc' = "split"
    /\ UNCHANGED <<tbl, calls, opts, parsed, result, rawMessage, query, transform, given>>

NextSplit == DoMultiple

SpecSplit == InitSplit /\ [][NextSplit]_vars

WasSplit == pc = "split"

\* CQL's reading of the input up to character i: "out" outside a string, the quote
\* character inside a string opened by it, and "closing" with the quote character
\* when the last character was that quote inside the string, which ends the string
\* unless the same quote follows (a doubled quote stands for one quote character)
RECURSIVE ModeAfter(_, _)
ModeAfter(text, i) ==
    IF i = 0 THEN [in |-> "", closing |-> FALSE]
    ELSE LET before == ModeAfter(text, i - 1)
             ch     == text[i]
             out    == [in |-> "", closing |-> FALSE]
         IN  IF before.in # "" /\ ~before.closing
             THEN IF ch = before.in THEN [before EXCEPT !.closing = TRUE] ELSE before
             ELSE IF before.closing /\ ch = before.in
             THEN [before EXCEPT !.closing = FALSE]
             ELSE IF ch = "'" \/ ch = "\"" THEN [in |-> ch, closing |-> FALSE]
             ELSE out

\* character i of the text lies outside every quoted string
OutsideString(text, i) ==
    LET before == ModeAfter(text, i - 1)
    IN  /\ before.in = "" \/ (before.closing /\ text[i] # before.in)
        /\ text[i] \notin {"'", "\""}

\* the positions of the semicolons outside strings
Separators(text) == {i \in DOMAIN text : text[i] = ";" /\ OutsideString(text, i)}

\* the segments the separators delimit that hold more than white space
Segments(text) ==
    LET cuts == Separators(text) \cup {0, Len(text) + 1}
    IN  {g \in cuts \X cuts :
            /\ g[1] < g[2]
            /\ \A c \in cuts : ~(g[1] < c /\ c < g[2])
            /\ TrimSpace(SubSeq(text, g[1] + 1, g[2] - 1)) # <<>>}

\* a quoted string opens at character lo
Opens(text, lo) ==
    LET before == ModeAfter(text, lo - 1)
    IN  /\ text[lo] \in {"'", "\""}
        /\ before.in = "" \/ (before.closing /\ text[lo] # before.in)

\* a quoted string ends with character hi
Closes(text, hi) ==
    /\ ModeAfter(text, hi).closing
    /\ hi = Len(text) \/ text[hi + 1] # text[hi]

\* the quoted strings of the text that are closed, as pairs of first and last position
QuotedStrings(text) ==
    {q \in (DOMAIN text) \X (DOMAIN text) :
        /\ q[1] < q[2]
        /\ Opens(text, q[1])
        /\ Closes(text, q[2])
        /\ \A h \in (q[1] + 1)..(q[2] - 1) : ~Closes(text, h)}

\* C22: no split at a semicolon inside a quoted string: every quoted string of the
\* input, doubled-quote escapes included, lies wholly inside one statement, and
\* there are as many statements as non-empty segments between the semicolons
\* outside strings.
C22_NoSplitInsideStrings ==
    WasSplit =>
        /\ Len(returned.parsed) = Cardinality(Segments(given))
        /\ \A q \in QuotedStrings(given) :
               \E k \in DOMAIN returned.parsed :
                   Contains(returned.parsed[k], SubSeq(given, q[1], q[2]))

-----------------------------------------------------------------------------
(* Line comments in the input of Multiple.                                 *)

\* CQL's reading of the input up to character i, line comments included: as
\* ModeAfter, and inside a comment from a "--" outside a string up to the end
\* of the line
RECURSIVE ScanAfter(_, _)
ScanAfter(text, i) ==
    IF i = 0 THEN [in |-> "", closing |-> FALSE, comment |-> FALSE]
    ELSE LET before == ScanAfter(text, i - 1)
             ch     == text[i]
             out    == [in |-> "", closing |-> FALSE, comment |-> FALSE]
         IN  IF before.comment
             THEN IF ch = "\n" THEN out ELSE before
             ELSE IF before.in # "" /\ ~before.closing
             THEN IF ch = before.in THEN [before EXCEPT !.closing = TRUE] ELSE before
             ELSE IF before.closing /\ ch = before.in
             THEN [before EXCEPT !.closing = FALSE]
             ELSE IF ch = "'" \/ ch = "\"" THEN [out EXCEPT !.in = ch]
             ELSE IF ch = "-" /\ i < Len(text) /\ text[i + 1] = "-"
             THEN [out EXCEPT !.comment = TRUE]
             ELSE out

\* the positions of the characters of line comments
CommentPositions(text) == {i \in DOMAIN text : ScanAfter(text, i).comment}

\* the text without its line comments; the line ends stay
StripComments(text) ==
    LET kept == Ascending(DOMAIN text \ CommentPositions(text))
    IN  [k \in DOMAIN kept |-> text[kept[k]]]

\* C30: line comments are skipped: the statements are those of the input without
\* the characters from a "--" outside a string up to the end of its line, so
\* that a semicolon or a quote inside a comment neither ends a statement nor
\* opens a string.
C30_LineCommentsSkipped ==
    WasSplit => returned.statements = splitStatements(StripComments(given))

-----------------------------------------------------------------------------
(* pkg/schema: ToJSON and ParseJSON.  A JSON document is held as the tree  *)
(* of its values; an object is the list of its members in document order.  *)

JNull == [kind |-> "null"]
JBool(b) == [kind |-> "bool", bool |-> b]
JNumber(n) == [kind |-> "number", num |-> n]
JArray(items) == [kind |-> "array", items |-> items]
JObject(members) == [kind |-> "object", members |-> members]

\* json.Marshal of a string: the text coerced to valid UTF-8, each invalid byte
\* replaced by the replacement character
ToValidUTF8(s) == [i \in DOMAIN s |-> IF s[i] = ByteFF THEN ReplacementRune ELSE s[i]]
JString(s) == [kind |-> "string", str |-> ToValidUTF8(s)]

\* json.Marshal of a []string
MarshalStrings(list) == JArray([i \in DOMAIN list |-> JString(list[i])])

\* the keys of a Go map in the order json.Marshal writes them: sorted as Go strings
SortedKeys(m) ==
    CHOOSE o \in MapOrders(DOMAIN m) :
        \A i, j \in DOMAIN o : i < j => StringLess(o[i], o[j])

\* json.Marshal of a map with string keys: one member per key, the key written as a
\* JSON string
MarshalMap(m, MarshalValue(_)) ==
    LET keys == SortedKeys(m)
    IN  JObject([i \in DOMAIN keys |-> <<ToValidUTF8(keys[i]), MarshalValue(m[keys[i]])>>])

\* json.Marshal of a *Column with its Position field left out
MarshalColumnWithoutPosition(col) ==
    JObject(<< <<"Name", JString(col.Name)>>, <<"Type", [kind |-> "string", str |-> col.Type]>>,
               <<"IsStatic", JBool(col.IsStatic)>>,
               <<"IsPartitionKey", JBool(col.IsPartitionKey)>>,
               <<"IsClusteringKey", JBool(col.IsClusteringKey)>> >>)

\* json.Marshal of a *Column: every field, under its Go name
MarshalColumn(col) ==
    JObject(<< <<"Name", JString(col.Name)>>, <<"Type", [kind |-> "string", str |-> col.Type]>>,
               <<"IsStatic", JBool(col.IsStatic)>>,
               <<"IsPartitionKey", JBool(col.IsPartitionKey)>>,
               <<"IsClusteringKey", JBool(col.IsClusteringKey)>>,
               <<"Position", JNumber(col.Position)>> >>)

\* json.Marshal of a *MaterializedView
MarshalView(mv) ==
    JObject(<< <<"Name", JString(mv.Name)>>, <<"BaseTable", JString(mv.BaseTable)>> >>)

\* json.Marshal of a *Table
MarshalTable(t) ==
    JObject(<< <<"Name", JString(t.Name)>>,
               <<"Columns", MarshalMap(t.Columns, MarshalColumn)>>,
               <<"ColumnOrder", MarshalStrings(t.ColumnOrder)>>,
               <<"PartitionKey", MarshalStrings(t.PartitionKey)>>,
               <<"ClusteringKey", MarshalStrings(t.ClusteringKey)>>,
               <<"ClusteringOrder",
                 MarshalMap(t.ClusteringOrder, LAMBDA o : [kind |-> "string", str |-> o])>>,
               <<"MaterializedViews", MarshalMap(t.MaterializedViews, MarshalView)>> >>)

\* json.Marshal of a *Keyspace
MarshalKeyspace(ks) ==
    JObject(<< <<"Name", JString(ks.Name)>>, <<"Tables", MarshalMap(ks.Tables, MarshalTable)>> >>)

\* Schema.ToJSON
ToJSON(s) == JObject(<< <<"Keyspaces", MarshalMap(s.Keyspaces, MarshalKeyspace)>> >>)

\* json.Unmarshal into a struct field: the value of the last member of the object with
\* the field's name, or the zero value when there is none or it is null
Field(obj, name, zero) ==
    LET at == {i \in DOMAIN obj.members : obj.members[i][1] = name}
    IN  IF at = {} \/ obj.members[MaxOf(at)][2].kind = "null" THEN zero
        ELSE obj.members[MaxOf(at)][2]

\* json.Unmarshal into a map with string keys: of members with the same key the last
\* one stays
UnmarshalMap(obj, UnmarshalValue(_)) ==
    LET keys == {obj.members[i][1] : i \in DOMAIN obj.members}
    IN  [k \in keys |->
            UnmarshalValue(obj.members[MaxOf({i \in DOMAIN obj.members :
                                                  obj.members[i][1] = k})][2])]

\* json.Unmarshal into a []string
UnmarshalStrings(arr) == [i \in DOMAIN arr.items |-> arr.items[i].str]

\* json.Unmarshal into a *Column
UnmarshalColumn(obj) ==
    [Name |-> Field(obj, "Name", JString(<<>>)).str,
     Type |-> Field(obj, "Type", [kind |-> "string", str |-> ""]).str,
     IsStatic |-> Field(obj, "IsStatic", JBool(FALSE)).bool,
     IsPartitionKey |-> Field(obj, "IsPartitionKey", JBool(FALSE)).bool,
     IsClusteringKey |-> Field(obj, "IsClusteringKey", JBool(FALSE)).bool,
     Position |-> Field(obj, "Position", JNumber(0)).num]

\* json.Unmarshal into a *MaterializedView
UnmarshalView(obj) ==
    [Name |-> Field(obj, "Name", JString(<<>>)).str,
     BaseTable |-> Field(obj, "BaseTable", JString(<<>>)).str]

\* json.Unmarshal into a *Table
UnmarshalTable(obj) ==
    [Name |-> Field(obj, "Name", JString(<<>>)).str,
     Columns |-> UnmarshalMap(Field(obj, "Columns", JObject(<<>>)), UnmarshalColumn),
     ColumnOrder |-> UnmarshalStrings(Field(obj, "ColumnOrder", JArray(<<>>))),
     PartitionKey |-> UnmarshalStrings(Field(obj, "PartitionKey", JArray(<<>>))),
     ClusteringKey |-> UnmarshalStrings(Field(obj, "ClusteringKey", JArray(<<>>))),
     ClusteringOrder |-> UnmarshalMap(Field(obj, "ClusteringOrder", JObject(<<>>)),
                                      LAMBDA v : v.str),
     MaterializedViews |-> UnmarshalMap(Field(obj, "MaterializedViews", JObject(<<>>)),
                                        UnmarshalView)]

\* json.Unmarshal into a *Keyspace
UnmarshalKeyspace(obj) ==
    NewKeyspace(Field(obj, "Name", JString(<<>>)).str,
                UnmarshalMap(Field(obj, "Tables", JObject(<<>>)), UnmarshalTable))

\* ParseJSON
ParseJSON(data) ==
    NewSchema(UnmarshalMap(Field(data, "Keyspaces", JObject(<<>>)), UnmarshalKeyspace))

-----------------------------------------------------------------------------
(* The round trip: a schema built with the builder is written and read.    *)

\* most columns added to the table written
MaxJSONColumns == 2
\* longest key list of the table written
MaxJSONKeyLen == 1

\* column names: two plain ones and one that is not valid UTF-8
JSONNames == {<<"a">>, <<"b">>, <<ByteFF>>}

\* AddColumn for each name of the list in turn, the last one as a static column
RECURSIVE AddColumns(_, _, _)
AddColumns(t, names, lastStatic) ==
    IF Len(names) = 0 THEN t
    ELSE LET front == AddColumns(t, SubSeq(names, 1, Len(names) - 1), FALSE)
         IN  IF lastStatic THEN AddStaticColumn(front, names[Len(names)], "int")
             ELSE AddColumn(front, names[Len(names)], "int")

\* a further builder call on the finished table
FurtherCalls == {"none", "SetPartitionKey", "AddColumn", "SetClusteringOrder"}
FurtherCall(t, call) ==
    CASE call = "none" -> t
      [] call = "SetPartitionKey" -> SetPartitionKey(t, <<<<"b">>>>)
      [] call = "AddColumn" -> AddColumn(t, <<"a">>, "int")
      [] call = "SetClusteringOrder" -> SetClusteringOrder(t, <<"a">>, OrderDesc)

\* the tables written: columns added, keys set, one further call
JSONTables ==
    {FurtherCall(SetClusteringKey(SetPartitionKey(AddColumns(NewTable(<<"t">>), names, st),
                                                  pk), ck), call) :
        names \in SeqsUpTo(JSONNames, MaxJSONColumns), st \in BOOLEAN,
        pk \in SeqsUpTo(JSONNames, MaxJSONKeyLen), ck \in SeqsUpTo(JSONNames, MaxJSONKeyLen),
        call \in FurtherCalls}

\* NewSchema().AddKeyspace("ks") with the table t
SchemaOf(t) == NewSchema((Name_ks :> NewKeyspace(Name_ks, (t.Name :> t))))

InitJSON ==
    /\ pc = "built"
    /\ tbl \in JSONTables
    /\ calls = 0
    /\ AnalyzeIdle /\ DiagIdle /\ CallIdle

DoToJSON ==
    /\ pc = "built"
    /\ given' = ToJSON(SchemaOf(tbl))
    /\ pc' = "written"
    /\ UNCHANGED <<tbl, calls, opts, parsed, result, rawMessage, query, transform, returned>>

DoParseJSON ==
    /\ pc = "written"
    /\ returned' = ParseJSON(given)
    /\ pc' = "read"
    /\ UNCHANGED <<tbl, calls, opts, parsed, result, rawMessage, query, transform, given>>

NextJSON == DoToJSON \/ DoParseJSON

SpecJSON == InitJSON /\ [][NextJSON]_vars

WasRead == pc = "read"

\* the table t of keyspace ks as read back
ReadTable == returned.Keyspaces[Name_ks].Tables[<<"t">>]

\* the read table has the key lists, the clustering orders and the column flags and
\* positions of the written one
SameKeysAndFlags ==
    /\ Name_ks \in DOMAIN returned.Keyspaces
    /\ <<"t">> \in DOMAIN returned.Keyspaces[Name_ks].Tables
    /\ ReadTable.PartitionKey = tbl.PartitionKey
    /\ ReadTable.ClusteringKey = tbl.ClusteringKey
    /\ ReadTable.ClusteringOrder = tbl.ClusteringOrder
    /\ DOMAIN ReadTable.Columns = DOMAIN tbl.Columns
    /\ \A name \in DOMAIN tbl.Columns :
           /\ ReadTable.Columns[name].IsStatic = tbl.Columns[name].IsStatic
           /\ ReadTable.Columns[name].IsPartitionKey = tbl.Columns[name].IsPartitionKey
           /\ ReadTable.Columns[name].IsClusteringKey = tbl.Columns[name].IsClusteringKey
           /\ ReadTable.Columns[name].Position = tbl.Columns[name].Position

ValidUTF8(s) == \A i \in DOMAIN s : s[i] # ByteFF

\* every name of the written table is valid UTF-8
NamesValid ==
    \A s \in DOMAIN tbl.Columns \cup Range(tbl.PartitionKey) \cup Range(tbl.ClusteringKey)
             \cup DOMAIN tbl.ClusteringOrder : ValidUTF8(s)

-----------------------------------------------------------------------------
(* Hover (pkg/hover): the token under the cursor and what it resolves to.  *)

HoverKeyword == "keyword"
HoverFunction == "function"
HoverTable == "table"
HoverColumn == "column"
HoverKeyspace == "keyspace"
HoverType == "type"
HoverOperator == "operator"

\* isTokenChar: a letter, a digit or an underscore
isTokenChar(r) == r \in Range(LowerLetters) \cup Range(UpperLetters) \cup Range(Digits) \cup {"_"}

\* a *Token, nil included
NilToken == [nil |-> TRUE, Text |-> <<>>, Start |-> 0, End |-> 0, Type |-> ""]

NewToken(text, start, end, tokenType) == [nil |-> FALSE, Text |-> text, Start |-> start, End |-> end, Type |-> tokenType]

\* classifyToken: function when followed by "(", else keyword (types included), else identifier
classifyToken(text, queryText, start) ==
    LET afterToken == TrimSpace(Slice(queryText, start + Len(text), Len(queryText)))
    IN  IF Len(afterToken) > 0 /\ afterToken[1] = "(" THEN TokenFunction
        ELSE IF IsKeyword(ToUpper(text)) THEN TokenKeyword
        ELSE IF IsType(ToLower(text)) THEN TokenKeyword
        ELSE TokenIdentifier

\* FindTokenAtPosition: offsets are byte offsets counted from 0
FindTokenAtPosition(queryText, position) ==
    IF Len(queryText) = 0 THEN NilToken
    ELSE LET atLeast0 == IF position < 0 THEN 0 ELSE position
             p == IF atLeast0 >= Len(queryText) THEN Len(queryText) - 1 ELSE atLeast0
             ch == queryText[p + 1]
         IN  IF ch \in Whitespace THEN NilToken
             ELSE IF ch \in {"(", ")", ",", ";"} THEN NewToken(<<ch>>, p, p + 1, TokenPunctuation)
             ELSE IF ch = "*" THEN NewToken(<<"*">>, p, p + 1, TokenOperator)
             ELSE IF ~isTokenChar(ch) THEN NilToken
             ELSE LET start == MinOf({s \in 0..p : \A k \in s..p : isTokenChar(queryText[k + 1])})
                      end == MaxOf({e \in (p + 1)..Len(queryText) : \A k \in p..(e - 1) : isTokenChar(queryText[k + 1])})
                      text == Slice(queryText, start, end)
                  IN  NewToken(text, start, end, classifyToken(text, queryText, start))

\* a *HoverInfo, nil included; Content holds what the formatter writes
NilHoverInfo == [nil |-> TRUE, Content |-> [Name |-> <<>>], Start |-> 0, End |-> 0, Kind |-> "", Name |-> <<>>]

NewHoverInfo(content, token, kind, name) == [nil |-> FALSE, Content |-> content, Start |-> token.Start, End |-> token.End, Kind |-> kind, Name |-> name]

\* resolveKeywordHover: the type table is consulted before the keyword table
resolveKeywordHover(token) ==
    IF IsType(token.Text) THEN NewHoverInfo([Name |-> ToLower(token.Text)], token, HoverType, ToLower(token.Text))
    ELSE IF ~IsKeyword(token.Text) THEN NilHoverInfo
    ELSE NewHoverInfo([Name |-> ToUpper(token.Text)], token, HoverKeyword, ToUpper(token.Text))

\* resolveFunctionHover: an unknown function gets a basic hover under the token's own text
resolveFunctionHover(token) ==
    IF IsFunction(token.Text) THEN NewHoverInfo([Name |-> ToLower(token.Text)], token, HoverFunction, ToLower(token.Text))
    ELSE NewHoverInfo([Name |-> token.Text], token, HoverFunction, token.Text)

\* resolveOperatorHover
resolveOperatorHover(token) ==
    IF token.Text = <<"*">> THEN NewHoverInfo([Name |-> <<"*">>], token, HoverOperator, <<"*">>) ELSE NilHoverInfo

\* the first of strings.FieldsFunc(s, f), empty when there is none; seps are the runes f accepts
FirstField(s, seps) ==
    LET t == TrimLeft(s, seps)
        stops == {i \in 1..Len(t) : t[i] \in seps}
    IN  SubSeq(t, 1, IF stops = {} THEN Len(t) ELSE MinOf(stops) - 1)

\* the keyspace and table a reference names, written into a queryContext
withTableRef(ctx, tableRef) ==
    LET dotIdx == Index(tableRef, <<".">>)
    IN  IF dotIdx # -1
        THEN [keyspaceName |-> ToLower(Slice(tableRef, 0, dotIdx)), tableName |-> ToLower(Slice(tableRef, dotIdx + 1, Len(tableRef)))]
        ELSE [ctx EXCEPT !.tableName = ToLower(tableRef)]

\* the table reference that follows the clause keyword found at idx
refAfter(queryText, idx, keywordLen, seps) ==
    IF idx = -1 THEN <<>> ELSE FirstField(TrimSpace(Slice(queryText, idx + keywordLen, Len(queryText))), seps)

\* extractQueryContext: the table of the FROM clause, else of UPDATE, else of INTO
extractQueryContext(queryText, position) ==
    LET upper == ToUpper(queryText)
        limit == IF position + 50 < Len(upper) THEN position + 50 ELSE Len(upper)
        lastFrom == LastIndex(Slice(upper, 0, limit), <<"F","R","O","M"," ">>)
        fromIdx == IF lastFrom = -1 THEN Index(upper, <<"F","R","O","M"," ">>) ELSE lastFrom
        fromRef == refAfter(queryText, fromIdx, 5, Whitespace \cup {",", ";", "(", ")"})
        updateRef == refAfter(queryText, Index(upper, <<"U","P","D","A","T","E"," ">>), 7, Whitespace \cup {","})
        intoRef == refAfter(queryText, Index(upper, <<"I","N","T","O"," ">>), 5, Whitespace \cup {"(", ","})
        empty == [keyspaceName |-> <<>>, tableName |-> <<>>]
        afterFrom == IF fromRef # <<>> THEN withTableRef(empty, fromRef) ELSE empty
        afterUpdate == IF afterFrom.tableName = <<>> /\ updateRef # <<>> THEN withTableRef(afterFrom, updateRef) ELSE afterFrom
    IN  IF afterUpdate.tableName = <<>> /\ intoRef # <<>> THEN withTableRef(afterUpdate, intoRef) ELSE afterUpdate

\* a *schema.Table of the hover schema, nil included
NilTable == [nil |-> TRUE, table |-> NewTable(<<>>), Keyspace |-> <<>>]

\* the table of keyspace ks named name; Keyspace is the field AddTable sets
TableOf(ks, name) == [nil |-> FALSE, table |-> ks.Tables[name], Keyspace |-> ks.Name]

\* findColumn: the column exists in the named keyspace and table
findColumn(s, keyspace, table, column) ==
    /\ HasKeyspace(s, keyspace)
    /\ HasTable(s.Keyspaces[keyspace], table)
    /\ HasColumn(s.Keyspaces[keyspace].Tables[table], column)

\* findTable: keyspaceNames is Schema.KeyspaceNames(), in the order the map range gave
findTable(s, defaultKs, table, keyspaceNames) ==
    LET dotIdx == Index(table, <<".">>)
        named == Slice(table, 0, dotIdx)
        rest == Slice(table, dotIdx + 1, Len(table))
        hits == {i \in DOMAIN keyspaceNames : HasTable(s.Keyspaces[keyspaceNames[i]], table)}
    IN  IF dotIdx # -1 /\ HasKeyspace(s, named)
        THEN IF HasTable(s.Keyspaces[named], rest) THEN TableOf(s.Keyspaces[named], rest) ELSE NilTable
        ELSE IF defaultKs # <<>> /\ HasKeyspace(s, defaultKs) /\ HasTable(s.Keyspaces[defaultKs], table)
        THEN TableOf(s.Keyspaces[defaultKs], table)
        ELSE IF hits # {} THEN TableOf(s.Keyspaces[keyspaceNames[MinOf(hits)]], table)
        ELSE NilTable

formatColumnHover(col, tableName) ==
    [Name |-> col.Name, Type |-> col.Type, IsPartitionKey |-> col.IsPartitionKey, IsClusteringKey |-> col.IsClusteringKey, IsStatic |-> col.IsStatic, Table |-> tableName]

formatTableHover(found) ==
    [Keyspace |-> found.Keyspace, Name |-> found.table.Name, Columns |-> Len(AllColumns(found.table)), PartitionKey |-> found.table.PartitionKey, ClusteringKey |-> found.table.ClusteringKey]

formatKeyspaceHover(ks) == [Name |-> ks.Name, Tables |-> Cardinality(DOMAIN ks.Tables)]

\* resolveIdentifierHover: column of the query's table, then table, then keyspace
resolveIdentifierHover(token, ctx, keyspaceNames) ==
    LET queryCtx == extractQueryContext(ctx.Query, token.Start)
        ks == IF queryCtx.keyspaceName = <<>> THEN ctx.DefaultKeyspace ELSE queryCtx.keyspaceName
        found == findTable(ctx.Schema, ctx.DefaultKeyspace, token.Text, keyspaceNames)
    IN  IF ctx.Schema.IsNil THEN NilHoverInfo
        ELSE IF queryCtx.tableName # <<>> /\ ks # <<>> /\ findColumn(ctx.Schema, ks, queryCtx.tableName, token.Text)
        THEN NewHoverInfo(formatColumnHover(ctx.Schema.Keyspaces[ks].Tables[queryCtx.tableName].Columns[token.Text], queryCtx.tableName), token, HoverColumn, ctx.Schema.Keyspaces[ks].Tables[queryCtx.tableName].Columns[token.Text].Name)
        ELSE IF ~found.nil THEN NewHoverInfo(formatTableHover(found), token, HoverTable, found.table.Name)
        ELSE IF HasKeyspace(ctx.Schema, token.Text)
        THEN NewHoverInfo(formatKeyspaceHover(ctx.Schema.Keyspaces[token.Text]), token, HoverKeyspace, ctx.Schema.Keyspaces[token.Text].Name)
        ELSE NilHoverInfo

\* resolveHoverInfo: by token type; punctuation has no hover
resolveHoverInfo(token, ctx, keyspaceNames) ==
    IF token.Type = TokenKeyword THEN resolveKeywordHover(token)
    ELSE IF token.Type = TokenFunction THEN resolveFunctionHover(token)
    ELSE IF token.Type = TokenIdentifier THEN resolveIdentifierHover(token, ctx, keyspaceNames)
    ELSE IF token.Type = TokenOperator THEN resolveOperatorHover(token)
    ELSE NilHoverInfo

\* GetHoverInfo
GetHoverInfo(ctx, keyspaceNames) ==
    LET token == FindTokenAtPosition(ctx.Query, ctx.Position)
    IN  IF ctx.Query = <<>> THEN NilHoverInfo
        ELSE IF token.nil \/ token.Text = <<>> THEN NilHoverInfo
        ELSE resolveHoverInfo(token, ctx, keyspaceNames)

\* Hover requests: a query, a cursor offset, a schema and a default keyspace.
MaxHoverKeyspaces == 2

Name_t == <<"t">>

HoverKeyspaceNames == <<<<"k","s","2">>, <<"k","s","1">>, <<"k","s","3">>, <<"k","s","4">>>>

HoverNames == {HoverKeyspaceNames[i] : i \in 1..MaxHoverKeyspaces}

HoverQueries ==
    {<<"S","E","L","E","C","T"," ","*"," ","F","R","O","M"," ","k","s","2",".","t">>, <<"S","E","L","E","C","T"," ","*"," ","F","R","O","M"," ","t">>, <<"S","E","L","E","C","T"," ","i","d"," ","F","R","O","M"," ","k","s","2",".","t">>, <<"U","P","D","A","T","E"," ","k","s","2",".","t"," ","S","E","T"," ","i","d"," ","="," ","1">>, <<"I","N","S","E","R","T"," ","I","N","T","O"," ","k","s","2",".","t"," ","(","i","d",")"," ","V","A","L","U","E","S"," ","(","1",")">>, <<"U","S","E"," ","k","s","2">>}

\* a keyspace is built with AddKeyspace, and holds no table or the table t with its column id
HoverKeyspaces(name) ==
    {NewKeyspace(name, EmptyMap), NewKeyspace(name, (Name_t :> AddColumn(NewTable(Name_t), Name_id, "int")))}

HoverSchemas ==
    UNION {{NewSchema(keyspaces) : keyspaces \in {m \in [present -> UNION {HoverKeyspaces(n) : n \in present}] : \A n \in present : m[n].Name = n}} : present \in SUBSET HoverNames}

InitHover ==
    /\ pc = "asked"
    /\ SchemaIdle /\ AnalyzeIdle /\ DiagIdle
    /\ \E queryText \in HoverQueries, s \in HoverSchemas, defaultKs \in HoverNames \cup {<<>>} :
         \E position \in (-1)..Len(queryText) :
            given = [Query |-> queryText, Position |-> position, Schema |-> s, DefaultKeyspace |-> defaultKs]
    /\ returned = NilHoverInfo

\* GetHoverInfo(ctx); the range over the keyspace map may come in any order
DoGetHoverInfo ==
    /\ pc = "asked"
    /\ \E keyspaceNames \in MapOrders(DOMAIN given.Schema.Keyspaces) :
         returned' = GetHoverInfo(given, keyspaceNames)
    /\ pc' = "answered"
    /\ UNCHANGED <<tbl, calls, opts, parsed, result, rawMessage, query, transform, given>>

NextHover == DoGetHoverInfo

SpecHover == InitHover /\ [][NextHover]_vars

Answered == pc = "answered"

\* the token under the cursor of the request
Hovered == FindTokenAtPosition(given.Query, given.Position)

\* the token that ends just before the dot preceding the hovered token
Qualifier == FindTokenAtPosition(given.Query, Hovered.Start - 2)

\* the cursor is on the table part of a reference keyspace.table
OnQualifiedTable ==
    /\ ~Hovered.nil /\ Hovered.Type = TokenIdentifier
    /\ Hovered.Start >= 2 /\ given.Query[Hovered.Start] = "."
    /\ ~Qualifier.nil /\ Qualifier.Type = TokenIdentifier /\ Qualifier.End = Hovered.Start - 1

\* the keyspace the reference names holds the hovered table
NamedTableExists ==
    /\ HasKeyspace(given.Schema, Qualifier.Text)
    /\ HasTable(given.Schema.Keyspaces[Qualifier.Text], Hovered.Text)

\* C21: hovering the table part of keyspace.table shows the table of the named keyspace
\* when it is there, and never a same-named table of the default or of any other keyspace.
C21_QualifiedTableFromNamedKeyspace ==
    (Answered /\ OnQualifiedTable) =>
        /\ NamedTableExists => (~returned.nil /\ returned.Kind = HoverTable /\ returned.Content.Keyspace = Qualifier.Text)
        /\ (~returned.nil /\ returned.Kind = HoverTable) => returned.Content.Keyspace = Qualifier.Text
====
